---- MODULE Spec2Model ----
(***************************************************************************)
(* Director MCP server: the Context Store (context-manager.ts), the Agent  *)
(* Gateway (agent-communicator.ts) and the HTTP handlers of index.ts that  *)
(* sequence them.  JavaScript values are modelled as records of a uniform   *)
(* shape: an optional field carries a kind/present flag, a missing string   *)
(* is the value Absent.                                                     *)
(***************************************************************************)
EXTENDS Integers, Sequences, FiniteSets, TLC

VARIABLES
  contexts,        \* ContextManager.contexts: context id -> SharedWorkflowContext
  allocated,       \* context ids generateContextId has handed out so far
  evicted,         \* context ids the cleanup sweep has deleted
  now,             \* the wall clock, in ms since the server was constructed
  nextSweep,       \* the time at which the cleanup interval timer is next due
  ticks,           \* how many times the clock has advanced
  folds,           \* how many updateContextWithAgentResponse calls have run
  exec,            \* the one POST /api/mcp/execute-workflow request in flight
  agentEndpoints,  \* AgentCommunicator.agentEndpoints: agent id -> endpoint
  gw,              \* the sendInstructionsToAgent call in flight (sendWithRetry loop)
  calls,           \* how many sendInstructionsToAgent calls have been started
  templateCache,   \* TemplateManager.templateCache: workflow type -> template
  loads,           \* the Template Store operations in flight, by request slot
  subst,           \* one populateParameters call: its arguments and its result
  last             \* the operation that ran last: inputs, result, state before it

vars == <<contexts, allocated, evicted, now, nextSweep, ticks, folds, exec,
          agentEndpoints, gw, calls, templateCache, loads, subst, last>>

(***************************************************************************)
(* Bounds of the model.                                                    *)
(***************************************************************************)
MaxCtx == 1       \* execute-workflow requests (each creates one context)
MaxFolds == 1     \* POST /api/agents/response requests
MaxSweepCtx == 2  \* execute-workflow requests in the specification with the clock
MaxTicks == 3     \* clock advances
MaxCalls == 2     \* POST /api/agents/:agentId/execute requests
MaxRetries == 5   \* largest retry_attempts an endpoint is reconfigured to
MaxSegs == 2      \* pieces (text or placeholder) a template string is made of
MaxLoads == 2     \* template requests (get-workflow-template, create-agent-instructions)
MaxRunFolds == 4  \* agent responses ingested in the specification of a workflow run

Absent == "<absent>"    \* the field is not in the object (reads as undefined)

(***************************************************************************)
(* Characters of the string values the code inspects (regex, includes).    *)
(***************************************************************************)
Chars(s) ==
  CASE s = "2025-01-15T10:30:00.000Z" ->
         <<"2", "0", "2", "5", "-", "0", "1", "-", "1", "5", "T", "1", "0", ":", "3", "0", ":", "0", "0", ".", "0", "0", "0", "Z">>
    [] s = "2025-01-15T10:30:00" ->
         <<"2", "0", "2", "5", "-", "0", "1", "-", "1", "5", "T", "1", "0", ":", "3", "0", ":", "0", "0">>
    [] s = "2025-01-15" ->
         <<"2", "0", "2", "5", "-", "0", "1", "-", "1", "5">>
    [] s = "2025-13-45T10:30:00Z" ->
         <<"2", "0", "2", "5", "-", "1", "3", "-", "4", "5", "T", "1", "0", ":", "3", "0", ":", "0", "0", "Z">>
    [] s = "yesterday" ->
         <<"y", "e", "s", "t", "e", "r", "d", "a", "y">>
    [] s = "categorization" ->
         <<"c", "a", "t", "e", "g", "o", "r", "i", "z", "a", "t", "i", "o", "n">>
    [] s = "execution_planning" ->
         <<"e", "x", "e", "c", "u", "t", "i", "o", "n", "_", "p", "l", "a", "n", "n", "i", "n", "g">>
    [] s = "execution" ->
         <<"e", "x", "e", "c", "u", "t", "i", "o", "n">>
    [] s = "validation" ->
         <<"v", "a", "l", "i", "d", "a", "t", "i", "o", "n">>
    [] s = "review" ->
         <<"r", "e", "v", "i", "e", "w">>
    [] s = "undefined" ->
         <<"u", "n", "d", "e", "f", "i", "n", "e", "d">>
    [] s = "request timeout" ->
         <<"r", "e", "q", "u", "e", "s", "t", " ", "t", "i", "m", "e", "o", "u", "t">>
    [] s = "database locked" ->
         <<"d", "a", "t", "a", "b", "a", "s", "e", " ", "l", "o", "c", "k", "e", "d">>
    [] s = "schema validation failed" ->
         <<"s", "c", "h", "e", "m", "a", " ", "v", "a", "l", "i", "d", "a", "t", "i", "o", "n", " ", "f", "a", "i", "l", "e", "d">>
    [] s = "tool missing" ->
         <<"t", "o", "o", "l", " ", "m", "i", "s", "s", "i", "n", "g">>
    [] s = "agent crashed" ->
         <<"a", "g", "e", "n", "t", " ", "c", "r", "a", "s", "h", "e", "d">>
    [] s = "timeout" ->
         <<"t", "i", "m", "e", "o", "u", "t">>
    [] s = "database" ->
         <<"d", "a", "t", "a", "b", "a", "s", "e">>
    [] s = "tool" ->
         <<"t", "o", "o", "l">>
    [] s = "planning" ->
         <<"p", "l", "a", "n", "n", "i", "n", "g">>
    [] s = "workflow_complete" ->
         <<"w", "o", "r", "k", "f", "l", "o", "w", "_", "c", "o", "m", "p", "l", "e", "t", "e">>
    [] s = "agent_id" ->
         <<"a", "g", "e", "n", "t", "_", "i", "d">>
    [] s = "task_id" ->
         <<"t", "a", "s", "k", "_", "i", "d">>
    [] s = "phase" ->
         <<"p", "h", "a", "s", "e">>
    [] s = "timestamp" ->
         <<"t", "i", "m", "e", "s", "t", "a", "m", "p">>
    [] s = "execution_time_ms" ->
         <<"e", "x", "e", "c", "u", "t", "i", "o", "n", "_", "t", "i", "m", "e", "_", "m", "s">>
    [] s = "results" ->
         <<"r", "e", "s", "u", "l", "t", "s">>
    [] s = "status" ->
         <<"s", "t", "a", "t", "u", "s">>
    [] s = "context_updates" ->
         <<"c", "o", "n", "t", "e", "x", "t", "_", "u", "p", "d", "a", "t", "e", "s">>
    [] s = "summary" ->
         <<"s", "u", "m", "m", "a", "r", "y">>
    [] s = "total_processed" ->
         <<"t", "o", "t", "a", "l", "_", "p", "r", "o", "c", "e", "s", "s", "e", "d">>
    [] s = "ideas_processed" ->
         <<"i", "d", "e", "a", "s", "_", "p", "r", "o", "c", "e", "s", "s", "e", "d">>
    [] s = "operations_completed" ->
         <<"o", "p", "e", "r", "a", "t", "i", "o", "n", "s", "_", "c", "o", "m", "p", "l", "e", "t", "e", "d">>
    [] s = "target_database" ->
         <<"t", "a", "r", "g", "e", "t", "_", "d", "a", "t", "a", "b", "a", "s", "e">>
    [] s = "target_database_id" ->
         <<"t", "a", "r", "g", "e", "t", "_", "d", "a", "t", "a", "b", "a", "s", "e", "_", "i", "d">>
    [] s = "success" ->
         <<"s", "u", "c", "c", "e", "s", "s">>
    [] s = "errors" ->
         <<"e", "r", "r", "o", "r", "s">>
    [] s = "next_phase" ->
         <<"n", "e", "x", "t", "_", "p", "h", "a", "s", "e">>
    [] s = "api_calls" ->
         <<"a", "p", "i", "_", "c", "a", "l", "l", "s">>
    [] s = "notion" ->
         <<"n", "o", "t", "i", "o", "n">>
    [] s = "planner" ->
         <<"p", "l", "a", "n", "n", "e", "r">>
    [] s = "task_1" ->
         <<"t", "a", "s", "k", "_", "1">>
    [] s = "projects" ->
         <<"p", "r", "o", "j", "e", "c", "t", "s">>
    [] s = "knowledge" ->
         <<"k", "n", "o", "w", "l", "e", "d", "g", "e">>
    [] s = "DB_P" ->
         <<"D", "B", "_", "P">>
    [] s = "DB_K" ->
         <<"D", "B", "_", "K">>
    [] s = "failed" ->
         <<"f", "a", "i", "l", "e", "d">>
    [] s = "yes" ->
         <<"y", "e", "s">>
    [] s = "true" ->
         <<"t", "r", "u", "e">>
    [] s = "false" ->
         <<"f", "a", "l", "s", "e">>
    [] s = "workflow.context.database_ids.ideas" ->
         <<"w", "o", "r", "k", "f", "l", "o", "w", ".", "c", "o", "n", "t", "e", "x", "t", ".", "d", "a", "t", "a", "b", "a", "s", "e", "_", "i", "d", "s", ".", "i", "d", "e", "a", "s">>
    [] s = "workflow.context.database_ids.projects" ->
         <<"w", "o", "r", "k", "f", "l", "o", "w", ".", "c", "o", "n", "t", "e", "x", "t", ".", "d", "a", "t", "a", "b", "a", "s", "e", "_", "i", "d", "s", ".", "p", "r", "o", "j", "e", "c", "t", "s">>
    [] s = "workflow.context.database_ids.knowledge" ->
         <<"w", "o", "r", "k", "f", "l", "o", "w", ".", "c", "o", "n", "t", "e", "x", "t", ".", "d", "a", "t", "a", "b", "a", "s", "e", "_", "i", "d", "s", ".", "k", "n", "o", "w", "l", "e", "d", "g", "e">>
    [] s = "workflow.context.database_ids.journal" ->
         <<"w", "o", "r", "k", "f", "l", "o", "w", ".", "c", "o", "n", "t", "e", "x", "t", ".", "d", "a", "t", "a", "b", "a", "s", "e", "_", "i", "d", "s", ".", "j", "o", "u", "r", "n", "a", "l">>
    [] s = "workflow.parameters.idea_limit" ->
         <<"w", "o", "r", "k", "f", "l", "o", "w", ".", "p", "a", "r", "a", "m", "e", "t", "e", "r", "s", ".", "i", "d", "e", "a", "_", "l", "i", "m", "i", "t">>
    [] s = "source_database_id" ->
         <<"s", "o", "u", "r", "c", "e", "_", "d", "a", "t", "a", "b", "a", "s", "e", "_", "i", "d">>
    [] s = "projects_database_id" ->
         <<"p", "r", "o", "j", "e", "c", "t", "s", "_", "d", "a", "t", "a", "b", "a", "s", "e", "_", "i", "d">>
    [] s = "knowledge_database_id" ->
         <<"k", "n", "o", "w", "l", "e", "d", "g", "e", "_", "d", "a", "t", "a", "b", "a", "s", "e", "_", "i", "d">>
    [] s = "journal_database_id" ->
         <<"j", "o", "u", "r", "n", "a", "l", "_", "d", "a", "t", "a", "b", "a", "s", "e", "_", "i", "d">>
    [] s = "limit" ->
         <<"l", "i", "m", "i", "t">>
    [] s = "a.b" ->
         <<"a", ".", "b">>
    [] s = "c.d" ->
         <<"c", ".", "d">>
    [] s = "context_id" ->
         <<"c", "o", "n", "t", "e", "x", "t", "_", "i", "d">>
    [] s = "constructor" ->
         <<"c", "o", "n", "s", "t", "r", "u", "c", "t", "o", "r">>
    [] s = "toString" ->
         <<"t", "o", "S", "t", "r", "i", "n", "g">>
    [] s = "X" ->
         <<"X">>
    [] s = "DB1" ->
         <<"D", "B", "1">>
    [] s = "0" ->
         <<"0">>
    [] s = "1" ->
         <<"1">>
    [] s = "5" ->
         <<"5">>
    [] s = "id=" ->
         <<"i", "d", "=">>
    [] s = "; n=" ->
         <<";", " ", "n", "=">>
    [] s = "}" ->
         <<"}">>
    [] s = "function Object() { [native code] }" ->
         <<"f", "u", "n", "c", "t", "i", "o", "n", " ", "O", "b", "j", "e", "c", "t", "(", ")", " ", "{", " ", "[", "n", "a", "t", "i", "v", "e", " ", "c", "o", "d", "e", "]", " ", "}">>
    [] s = "function toString() { [native code] }" ->
         <<"f", "u", "n", "c", "t", "i", "o", "n", " ", "t", "o", "S", "t", "r", "i", "n", "g", "(", ")", " ", "{", " ", "[", "n", "a", "t", "i", "v", "e", " ", "c", "o", "d", "e", "]", " ", "}">>
    [] s = "multi_idea_categorization" ->
         <<"m", "u", "l", "t", "i", "_", "i", "d", "e", "a", "_", "c", "a", "t", "e", "g", "o", "r", "i", "z", "a", "t", "i", "o", "n">>
    [] s = "database_page_updates" ->
         <<"d", "a", "t", "a", "b", "a", "s", "e", "_", "p", "a", "g", "e", "_", "u", "p", "d", "a", "t", "e", "s">>
    [] s = "content_processing" ->
         <<"c", "o", "n", "t", "e", "n", "t", "_", "p", "r", "o", "c", "e", "s", "s", "i", "n", "g">>
    [] s = "update" ->
         <<"u", "p", "d", "a", "t", "e">>
    [] s = "content" ->
         <<"c", "o", "n", "t", "e", "n", "t">>
    [] s = "operations" ->
         <<"o", "p", "e", "r", "a", "t", "i", "o", "n", "s">>
    [] s = "iteration" ->
         <<"i", "t", "e", "r", "a", "t", "i", "o", "n">>
    [] s = "database timeout" ->
         <<"d", "a", "t", "a", "b", "a", "s", "e", " ", "t", "i", "m", "e", "o", "u", "t">>
    [] s = "validation of database row" ->
         <<"v", "a", "l", "i", "d", "a", "t", "i", "o", "n", " ", "o", "f", " ", "d", "a", "t", "a", "b", "a", "s", "e", " ", "r", "o", "w">>
    [] s = "tool validation failed" ->
         <<"t", "o", "o", "l", " ", "v", "a", "l", "i", "d", "a", "t", "i", "o", "n", " ", "f", "a", "i", "l", "e", "d">>
    [] s = "tool not found" ->
         <<"t", "o", "o", "l", " ", "n", "o", "t", " ", "f", "o", "u", "n", "d">>
    [] s = "unexpected reply" ->
         <<"u", "n", "e", "x", "p", "e", "c", "t", "e", "d", " ", "r", "e", "p", "l", "y">>
    [] OTHER -> <<>>

Digits == {"0", "1", "2", "3", "4", "5", "6", "7", "8", "9"}

DigitVal(c) ==
  CASE c = "0" -> 0 [] c = "1" -> 1 [] c = "2" -> 2 [] c = "3" -> 3 [] c = "4" -> 4
    [] c = "5" -> 5 [] c = "6" -> 6 [] c = "7" -> 7 [] c = "8" -> 8 [] c = "9" -> 9
    [] OTHER -> 0

TwoDigits(cs, i) == 10 * DigitVal(cs[i]) + DigitVal(cs[i + 1])

\* String.prototype.includes: sub occurs in s as a contiguous run of characters.
Includes(s, sub) ==
  LET cs == Chars(s)
      ps == Chars(sub)
  IN \E i \in 1..(Len(cs) - Len(ps) + 1) : SubSeq(cs, i, i + Len(ps) - 1) = ps

\* /^\d{4}-\d{2}-\d{2}T\d{2}:\d{2}:\d{2}(\.\d{3})?Z?$/.test(timestamp)
MatchesIso8601Regex(cs) ==
  /\ Len(cs) >= 19
  /\ \A i \in {1, 2, 3, 4, 6, 7, 9, 10, 12, 13, 15, 16, 18, 19} : cs[i] \in Digits
  /\ cs[5] = "-" /\ cs[8] = "-" /\ cs[11] = "T" /\ cs[14] = ":" /\ cs[17] = ":"
  /\ LET rest == SubSeq(cs, 20, Len(cs))
     IN \/ rest = <<>>
        \/ rest = <<"Z">>
        \/ /\ Len(rest) \in {4, 5}
           /\ rest[1] = "."
           /\ \A i \in {2, 3, 4} : rest[i] \in Digits
           /\ Len(rest) = 5 => rest[5] = "Z"

\* !isNaN(Date.parse(timestamp)) for a string of the regex's shape: the engine
\* rejects a month outside 1..12, a day outside 1..31 and a time past 24:00:00.
DateParseOk(cs) ==
  LET month == TwoDigits(cs, 6)
      day == TwoDigits(cs, 9)
      hour == TwoDigits(cs, 12)
      minute == TwoDigits(cs, 15)
      second == TwoDigits(cs, 18)
  IN /\ month \in 1..12
     /\ day \in 1..31
     /\ minute <= 59
     /\ second <= 59
     /\ \/ hour <= 23
        \/ hour = 24 /\ minute = 0 /\ second = 0

isValidISO8601(timestamp) ==
  LET cs == Chars(timestamp)
  IN MatchesIso8601Regex(cs) /\ DateParseOk(cs)

(***************************************************************************)
(* Agent response bodies.  kind "empty" is a falsy body (no JSON at all);   *)
(* status.success is "true" or "false" for a boolean and another string for *)
(* a value that is not a boolean.                                           *)
(***************************************************************************)
requiredFields == <<"agent_id", "task_id", "phase", "timestamp", "results", "status">>

\* field in response
HasField(response, field) ==
  CASE field = "agent_id" -> response.agent_id # Absent
    [] field = "task_id" -> response.task_id # Absent
    [] field = "phase" -> response.phase # Absent
    [] field = "timestamp" -> response.timestamp # Absent
    [] field = "results" -> response.results.kind # "absent"
    [] field = "status" -> response.status.kind # "absent"
    [] OTHER -> FALSE

\* The first required field the loop finds missing, 0 when none is.
FirstMissing(response) ==
  LET missing == {i \in 1..Len(requiredFields) : ~HasField(response, requiredFields[i])}
  IN IF missing = {} THEN 0
     ELSE CHOOSE i \in missing : \A j \in missing : i <= j

IsBoolean(v) == v \in {"true", "false"}

\* JavaScript truthiness of status.success
Truthy(v) == v \notin {"false", Absent, ""}

\* A validation without the timestamp check.
validateWithoutTimestamp(response) ==
  IF response.kind = "empty"
    THEN [success |-> FALSE, error |-> "Empty response"]
  ELSE IF FirstMissing(response) # 0
    THEN [success |-> FALSE, error |-> "Missing required field"]
  ELSE IF response.status.kind # "object" \/ ~IsBoolean(response.status.success)
    THEN [success |-> FALSE, error |-> "Invalid status object"]
  ELSE [success |-> TRUE, error |-> ""]

validateAgentResponse(response) ==
  IF response.kind = "empty"
    THEN [success |-> FALSE, error |-> "Empty response"]
  ELSE IF FirstMissing(response) # 0
    THEN [success |-> FALSE, error |-> "Missing required field"]
  ELSE IF response.status.kind # "object" \/ ~IsBoolean(response.status.success)
    THEN [success |-> FALSE, error |-> "Invalid status object"]
  ELSE IF ~isValidISO8601(response.timestamp)
    THEN [success |-> FALSE, error |-> "Invalid timestamp format"]
  ELSE [success |-> TRUE, error |-> ""]

TsGood == "2025-01-15T10:30:00.000Z"

BottleneckMs == 60000    \* updatePerformanceMetrics: "Over 1 minute"




NoItems == [present |-> FALSE, items |-> <<>>]
Items(s) == [present |-> TRUE, items |-> s]

NoResults(kind) ==
  [kind |-> kind, summary |-> [present |-> FALSE, total_processed |-> 0],
   ideas_processed |-> NoItems, operations_completed |-> NoItems]

IdeasResults ==
  [kind |-> "object", summary |-> [present |-> TRUE, total_processed |-> 3],
   ideas_processed |-> Items(<<
     [target_database |-> "projects", target_database_id |-> "DB_P"],
     [target_database |-> "knowledge", target_database_id |-> "DB_K"],
     [target_database |-> "projects", target_database_id |-> "DB_P"]>>),
   operations_completed |-> NoItems]

OpsResults ==
  [kind |-> "object", summary |-> [present |-> FALSE, total_processed |-> 0],
   ideas_processed |-> NoItems,
   operations_completed |-> Items(<<[status |-> "success"], [status |-> "failed"]>>)]

NoStatus(kind) ==
  [kind |-> kind, success |-> Absent, errors |-> NoItems, next_phase |-> Absent]

Outcomes == {"ok_next", "ok_none", "ok_done", "failed"}

StatusOf(outcome) ==
  CASE outcome = "ok_next" ->
         [kind |-> "object", success |-> "true", errors |-> Items(<<>>),
          next_phase |-> "execution_planning"]
    [] outcome = "ok_none" ->
         [kind |-> "object", success |-> "true", errors |-> Items(<<>>), next_phase |-> ""]
    [] outcome = "ok_done" ->
         [kind |-> "object", success |-> "true", errors |-> Items(<<>>),
          next_phase |-> "workflow_complete"]
    [] OTHER ->
         [kind |-> "object", success |-> "false",
          errors |-> Items(<<"request timeout", "database locked">>), next_phase |-> ""]

RespAgents == {"notion", "planner"}
RespPhases == {"categorization", "execution_planning"}

\* A response of the shape AgentToDirectorResponse declares.
MkBody(agent, phase, outcome) ==
  [kind |-> "object", agent_id |-> agent, task_id |-> "task_1", phase |-> phase,
   timestamp |-> TsGood,
   execution_time_ms |-> IF outcome = "failed" THEN BottleneckMs + 10000 ELSE 1500,
   results |-> IF agent = "notion" THEN IdeasResults ELSE OpsResults,
   status |-> StatusOf(outcome),
   context_updates |-> [kind |-> "object", api_calls |-> 2]]

WellFormedBodies ==
  {MkBody(a, p, o) : a \in RespAgents, p \in RespPhases, o \in Outcomes}

BaseBody == MkBody("notion", "categorization", "ok_next")

EmptyBody == [BaseBody EXCEPT !.kind = "empty"]

\* Bodies the envelope validation rejects.
InvalidBodies ==
  { EmptyBody,
    [BaseBody EXCEPT !.agent_id = Absent, !.task_id = Absent, !.phase = Absent,
                     !.timestamp = Absent, !.results = NoResults("absent"),
                     !.status = NoStatus("absent"),
                     !.context_updates = [kind |-> "absent", api_calls |-> 0]],
    [BaseBody EXCEPT !.agent_id = Absent],
    [BaseBody EXCEPT !.task_id = Absent],
    [BaseBody EXCEPT !.phase = Absent],
    [BaseBody EXCEPT !.phase = Absent, !.status.next_phase = ""],
    [BaseBody EXCEPT !.timestamp = Absent],
    [BaseBody EXCEPT !.results = NoResults("absent")],
    [BaseBody EXCEPT !.status = NoStatus("absent")],
    [BaseBody EXCEPT !.status = NoStatus("null")],
    [BaseBody EXCEPT !.status.success = "yes"],
    [BaseBody EXCEPT !.timestamp = "2025-01-15"],
    [BaseBody EXCEPT !.timestamp = "2025-13-45T10:30:00Z"],
    [BaseBody EXCEPT !.timestamp = "yesterday"] }

\* Bodies the validation accepts although a field the fold reads is missing.
IncompleteBodies ==
  { [BaseBody EXCEPT !.status.errors = NoItems],
    [BaseBody EXCEPT !.context_updates = [kind |-> "absent", api_calls |-> 0]],
    [BaseBody EXCEPT !.results = NoResults("null")] }

Bodies ==
  WellFormedBodies
    \cup { [BaseBody EXCEPT !.timestamp = "2025-01-15T10:30:00"],
           [BaseBody EXCEPT !.phase = "review", !.status.next_phase = ""] }
    \cup InvalidBodies \cup IncompleteBodies

(***************************************************************************)
(* Context Store.                                                          *)
(***************************************************************************)
maxContextAge == 24 * 60 * 60 * 1000
SweepIntervalMs == 60 * 60 * 1000

EmptyMap == [x \in {} |-> x]

Put(f, k, v) == [x \in DOMAIN f \cup {k} |-> IF x = k THEN v ELSE f[x]]

\* An undefined property key is the string "undefined".
Key(s) == IF s = Absent THEN "undefined" ELSE s

\* new Date().toISOString(): the date and the time of day, to the millisecond.
ToISOString(t) == [day |-> t \div 86400000, ms |-> t % 86400000]

\* new Date(iso).getTime()
GetTime(iso) == iso.day * 86400000 + iso.ms

RECURSIVE Sum(_)
Sum(s) == IF s = <<>> THEN 0 ELSE Head(s) + Sum(Tail(s))

RECURSIVE Dedupe(_)
\* [...new Set(s)]: the first occurrence of each element, in order.
Dedupe(s) ==
  IF s = <<>> THEN <<>>
  ELSE LET front == Dedupe(SubSeq(s, 1, Len(s) - 1))
           x == s[Len(s)]
       IN IF \E i \in 1..Len(front) : front[i] = x THEN front ELSE Append(front, x)

RECURSIVE Join(_)
\* errors.join('; '): the parts with the separator between them.
Join(s) ==
  IF s = <<>> THEN <<>>
  ELSE IF Len(s) = 1 THEN s
  ELSE <<Head(s), "; ">> \o Join(Tail(s))

InSeq(x, s) == \E i \in 1..Len(s) : s[i] = x

\* A context that starts in its workflow's first phase.
createWorkflowContextStarted(contextId, workflowId, t) ==
  [context_id |-> contextId,
   workflow_id |-> workflowId,
   current_phase |-> "categorization",
   iteration |-> 1,
   started_at |-> ToISOString(t),
   updated_at |-> ToISOString(t),
   phase_results |-> EmptyMap,
   workflow_state |-> [databases_involved |-> <<>>, total_operations |-> 0,
                       error_count |-> 0, current_agents |-> <<>>,
                       pending_tasks |-> <<>>],
   performance_metrics |-> [total_execution_time_ms |-> 0, api_calls_total |-> 0,
                            token_usage_estimate |-> 0,
                            agent_response_times |-> EmptyMap, bottlenecks |-> <<>>],
   error_log |-> <<>>]

createWorkflowContext(contextId, workflowId, t) ==
  [context_id |-> contextId,
   workflow_id |-> workflowId,
   current_phase |-> "initialization",
   iteration |-> 1,
   started_at |-> ToISOString(t),
   updated_at |-> ToISOString(t),
   phase_results |-> EmptyMap,
   workflow_state |-> [databases_involved |-> <<>>, total_operations |-> 0,
                       error_count |-> 0, current_agents |-> <<>>,
                       pending_tasks |-> <<>>],
   performance_metrics |-> [total_execution_time_ms |-> 0, api_calls_total |-> 0,
                            token_usage_estimate |-> 0,
                            agent_response_times |-> EmptyMap, bottlenecks |-> <<>>],
   error_log |-> <<>>]

\* The context, or the empty sequence for null.
getWorkflowContext(ctxs, contextId) ==
  IF contextId \in DOMAIN ctxs THEN <<ctxs[contextId]>> ELSE <<>>

RECURSIVE MapTargetDatabase(_)
MapTargetDatabase(ideas) ==
  IF ideas = <<>> THEN <<>>
  ELSE <<Head(ideas).target_database>> \o MapTargetDatabase(Tail(ideas))

summarizeResults(results) ==
  [summary |-> results.summary,
   has_ideas |-> results.ideas_processed.present,
   ideas_count |-> Len(results.ideas_processed.items),
   databases_targeted |-> Dedupe(MapTargetDatabase(results.ideas_processed.items)),
   has_operations |-> results.operations_completed.present,
   operations_count |-> Len(results.operations_completed.items),
   successful_operations |->
     Len(SelectSeq(results.operations_completed.items,
                   LAMBDA op : op.status = "success"))]

\* The phaseResult literal reads status.success, results.summary and
\* status.errors.length: a TypeError when status, results or errors is missing.
PhaseResultThrows(response) ==
  \/ response.status.kind # "object"
  \/ response.results.kind # "object"
  \/ ~response.status.errors.present

\* A phase result with a third status for a failure that completed some operations.
PhaseResultPartial(response) ==
  [agent |-> response.agent_id,
   completed_at |-> response.timestamp,
   status |-> IF Truthy(response.status.success) THEN "success"
              ELSE IF summarizeResults(response.results).successful_operations > 0
                THEN "partial" ELSE "failed",
   execution_time_ms |-> response.execution_time_ms,
   results_summary |-> summarizeResults(response.results),
   next_action |-> response.status.next_phase,
   error_details |-> Join(response.status.errors.items)]

PhaseResultOf(response) ==
  [agent |-> response.agent_id,
   completed_at |-> response.timestamp,
   status |-> IF Truthy(response.status.success) THEN "success" ELSE "failed",
   execution_time_ms |-> response.execution_time_ms,
   results_summary |-> summarizeResults(response.results),
   next_action |-> response.status.next_phase,
   error_details |-> Join(response.status.errors.items)]

\* A store that replaces the ledger by the new entry instead of adding to it.
StoreWithoutMerge(ctx, response, t) ==
  [ctx EXCEPT !.phase_results =
                 Put(EmptyMap, Key(response.phase), PhaseResultOf(response)),
              !.current_phase = response.phase,
              !.updated_at = ToISOString(t)]

\* A store that drops the failed entries of the ledger when a phase is recorded.
StoreClearingFailed(ctx, response, t) ==
  [ctx EXCEPT !.phase_results =
                 Put([k \in {x \in DOMAIN @ : @[x].status # "failed"} |-> @[k]],
                     Key(response.phase), PhaseResultOf(response)),
              !.current_phase = response.phase,
              !.updated_at = ToISOString(t)]

\* A store that advances current_phase to the phase the response recommends.
StoreAdvancing(ctx, response, t) ==
  [ctx EXCEPT !.phase_results = Put(@, Key(response.phase), PhaseResultOf(response)),
              !.current_phase = IF response.status.next_phase \in {Absent, ""}
                                  THEN response.phase
                                  ELSE response.status.next_phase,
              !.updated_at = ToISOString(t)]

\* phase_results[phase] = phaseResult; current_phase = phase; updated_at = now
StorePhaseResult(ctx, response, t) ==
  [ctx EXCEPT !.phase_results = Put(@, Key(response.phase), PhaseResultOf(response)),
              !.current_phase = response.phase,
              !.updated_at = ToISOString(t)]

\* A tracking that adds the target of every processed item.
TrackDatabasesOfEveryItem(involved, ideas) ==
  involved \o [i \in 1..Len(ideas) |-> ideas[i].target_database_id]

RECURSIVE TrackDatabases(_, _)
TrackDatabases(involved, ideas) ==
  IF ideas = <<>> THEN involved
  ELSE LET id == Head(ideas).target_database_id
       IN TrackDatabases(
            IF id \notin {Absent, ""} /\ ~InSeq(id, involved)
              THEN Append(involved, id) ELSE involved,
            Tail(ideas))

\* A workflow state whose error_count counts the reported error strings.
updateWorkflowStateCountingErrors(state, response) ==
  [state EXCEPT
     !.current_agents =
        IF InSeq(response.agent_id, @) THEN @ ELSE Append(@, response.agent_id),
     !.total_operations =
        @ + (IF response.results.operations_completed.present
               THEN Len(response.results.operations_completed.items) ELSE 0)
          + (IF response.results.ideas_processed.present
               THEN Len(response.results.ideas_processed.items) ELSE 0),
     !.databases_involved =
        IF response.results.ideas_processed.present
          THEN TrackDatabases(@, response.results.ideas_processed.items) ELSE @,
     !.error_count = IF Truthy(response.status.success) THEN @
                     ELSE @ + Len(response.status.errors.items)]

updateWorkflowState(state, response) ==
  [state EXCEPT
     !.current_agents =
        IF InSeq(response.agent_id, @) THEN @ ELSE Append(@, response.agent_id),
     !.total_operations =
        @ + (IF response.results.operations_completed.present
               THEN Len(response.results.operations_completed.items) ELSE 0)
          + (IF response.results.ideas_processed.present
               THEN Len(response.results.ideas_processed.items) ELSE 0),
     !.databases_involved =
        IF response.results.ideas_processed.present
          THEN TrackDatabases(@, response.results.ideas_processed.items) ELSE @,
     !.error_count = IF Truthy(response.status.success) THEN @ ELSE @ + 1]

(***************************************************************************)
(* JSON.stringify(agentResponse).length over the fields the model carries. *)
(***************************************************************************)
RECURSIVE NumSize(_)
NumSize(n) == IF n < 10 THEN 1 ELSE 1 + NumSize(n \div 10)

StrSize(s) == Len(Chars(s)) + 2

Member(key, size) == Len(Chars(key)) + 3 + size

\* An object or an array: two brackets, its members, a comma between members.
Composite(members) ==
  LET m == SelectSeq(members, LAMBDA x : x > 0)
  IN 2 + Sum(m) + (IF m = <<>> THEN 0 ELSE Len(m) - 1)

OptStr(key, s) == IF s = Absent THEN 0 ELSE Member(key, StrSize(s))

IdeaSize(idea) ==
  Composite(<<OptStr("target_database", idea.target_database),
              OptStr("target_database_id", idea.target_database_id)>>)

OpSize(op) == Composite(<<OptStr("status", op.status)>>)

OptArray(key, arr, sizes) == IF arr.present THEN Member(key, Composite(sizes)) ELSE 0

ResultsSize(results) ==
  CASE results.kind = "absent" -> 0
    [] results.kind = "null" -> Member("results", 4)
    [] OTHER ->
       Member("results", Composite(<<
         IF results.summary.present
           THEN Member("summary", Composite(<<
                  Member("total_processed", NumSize(results.summary.total_processed))>>))
           ELSE 0,
         OptArray("ideas_processed", results.ideas_processed,
                  [i \in 1..Len(results.ideas_processed.items) |->
                     IdeaSize(results.ideas_processed.items[i])]),
         OptArray("operations_completed", results.operations_completed,
                  [i \in 1..Len(results.operations_completed.items) |->
                     OpSize(results.operations_completed.items[i])])>>))

StatusSize(status) ==
  CASE status.kind = "absent" -> 0
    [] status.kind = "null" -> Member("status", 4)
    [] OTHER ->
       Member("status", Composite(<<
         IF status.success = Absent THEN 0
         ELSE IF IsBoolean(status.success)
           THEN Member("success", Len(Chars(status.success)))
         ELSE Member("success", StrSize(status.success)),
         OptArray("errors", status.errors,
                  [i \in 1..Len(status.errors.items) |-> StrSize(status.errors.items[i])]),
         OptStr("next_phase", status.next_phase)>>))

JsonSize(response) ==
  Composite(<<
    OptStr("agent_id", response.agent_id),
    OptStr("task_id", response.task_id),
    OptStr("phase", response.phase),
    OptStr("timestamp", response.timestamp),
    Member("execution_time_ms", NumSize(response.execution_time_ms)),
    ResultsSize(response.results),
    StatusSize(response.status),
    IF response.context_updates.kind = "object"
      THEN Member("context_updates", Composite(<<
             Member("api_calls", NumSize(response.context_updates.api_calls))>>))
      ELSE 0>>)

\* agentResponse.context_updates.api_calls: a TypeError when context_updates is missing.
MetricsThrows(response) == response.context_updates.kind # "object"

\* What updatePerformanceMetrics has written when it throws.
updatePerformanceMetricsPartial(metrics, response) ==
  [metrics EXCEPT !.total_execution_time_ms = @ + response.execution_time_ms]

updatePerformanceMetrics(metrics, response) ==
  [metrics EXCEPT
     !.total_execution_time_ms = @ + response.execution_time_ms,
     !.api_calls_total = @ + response.context_updates.api_calls,
     !.agent_response_times =
        Put(@, Key(response.agent_id), response.execution_time_ms),
     !.token_usage_estimate = @ + ((JsonSize(response) + 3) \div 4),
     !.bottlenecks =
        IF response.execution_time_ms > BottleneckMs
          THEN Append(@, [agent |-> response.agent_id,
                          ms |-> response.execution_time_ms])
          ELSE @]

\* A suggestion that tests 'database' before 'timeout'.
suggestErrorActionDatabaseFirst(error) ==
  IF Includes(error, "database")
    THEN "Check database connectivity and permissions"
  ELSE IF Includes(error, "timeout")
    THEN "Increase timeout or optimize agent processing"
  ELSE IF Includes(error, "validation")
    THEN "Review input parameters and schema validation"
  ELSE IF Includes(error, "tool")
    THEN "Verify MCP tool availability and configuration"
  ELSE "Review error details and agent logs for specific resolution"

suggestErrorAction(error) ==
  IF Includes(error, "timeout")
    THEN "Increase timeout or optimize agent processing"
  ELSE IF Includes(error, "database")
    THEN "Check database connectivity and permissions"
  ELSE IF Includes(error, "validation")
    THEN "Review input parameters and schema validation"
  ELSE IF Includes(error, "tool")
    THEN "Verify MCP tool availability and configuration"
  ELSE "Review error details and agent logs for specific resolution"

ErrorEntryOf(response, error) ==
  [timestamp |-> response.timestamp,
   error_type |-> "agent_execution_error",
   error_message |-> error,
   context |-> [agent_id |-> response.agent_id, task_id |-> response.task_id,
                phase |-> response.phase],
   suggested_action |-> suggestErrorAction(error),
   agent_id |-> response.agent_id,
   phase |-> response.phase]

\* An error log that takes the errors of a response last to first.
addErrorToContextLastFirst(errorLog, response) ==
  LET n == Len(response.status.errors.items)
  IN errorLog \o [i \in 1..n |->
                    ErrorEntryOf(response, response.status.errors.items[n + 1 - i])]

addErrorToContext(errorLog, response) ==
  errorLog \o [i \in 1..Len(response.status.errors.items) |->
                 ErrorEntryOf(response, response.status.errors.items[i])]

\* agentResponse.phase.includes(...): a TypeError when no next phase is named
\* and phase is missing.
NextPhaseThrows(response) ==
  response.status.next_phase \in {Absent, ""} /\ response.phase = Absent

\* A next phase that hands the agent's sentinel through unchanged.
determineNextPhaseRaw(response) ==
  IF response.status.next_phase \notin {Absent, ""}
    THEN response.status.next_phase
  ELSE IF Includes(response.phase, "categorization") THEN "execution_planning"
  ELSE IF Includes(response.phase, "planning") THEN "execution"
  ELSE IF Includes(response.phase, "execution") THEN "validation"
  ELSE IF Includes(response.phase, "validation") THEN "complete"
  ELSE "unknown"

\* A progression that tests 'execution' before 'planning'.
determineNextPhaseExecutionFirst(response) ==
  IF response.status.next_phase \notin {Absent, ""}
    THEN IF response.status.next_phase = "workflow_complete"
           THEN "complete" ELSE response.status.next_phase
  ELSE IF Includes(response.phase, "categorization") THEN "execution_planning"
  ELSE IF Includes(response.phase, "execution") THEN "validation"
  ELSE IF Includes(response.phase, "planning") THEN "execution"
  ELSE IF Includes(response.phase, "validation") THEN "complete"
  ELSE "unknown"

\* A progression without the rule for 'validation'.
determineNextPhaseWithoutLastRule(response) ==
  IF response.status.next_phase \notin {Absent, ""}
    THEN IF response.status.next_phase = "workflow_complete"
           THEN "complete" ELSE response.status.next_phase
  ELSE IF Includes(response.phase, "categorization") THEN "execution_planning"
  ELSE IF Includes(response.phase, "planning") THEN "execution"
  ELSE IF Includes(response.phase, "execution") THEN "validation"
  ELSE "unknown"

determineNextPhase(response) ==
  IF response.status.next_phase \notin {Absent, ""}
    THEN IF response.status.next_phase = "workflow_complete"
           THEN "complete" ELSE response.status.next_phase
  ELSE IF Includes(response.phase, "categorization") THEN "execution_planning"
  ELSE IF Includes(response.phase, "planning") THEN "execution"
  ELSE IF Includes(response.phase, "execution") THEN "validation"
  ELSE IF Includes(response.phase, "validation") THEN "complete"
  ELSE "unknown"

getContextSummary(ctx, t) ==
  [context_id |-> ctx.context_id,
   workflow_id |-> ctx.workflow_id,
   current_phase |-> ctx.current_phase,
   iteration |-> ctx.iteration,
   duration_ms |-> t - GetTime(ctx.started_at),
   phases_completed |-> Cardinality(DOMAIN ctx.phase_results),
   agents_involved |-> ctx.workflow_state.current_agents,
   total_operations |-> ctx.workflow_state.total_operations,
   error_count |-> ctx.workflow_state.error_count,
   performance |-> [total_time_ms |-> ctx.performance_metrics.total_execution_time_ms,
                    api_calls |-> ctx.performance_metrics.api_calls_total,
                    token_usage |-> ctx.performance_metrics.token_usage_estimate]]

Failure(msg) == [success |-> FALSE, error |-> msg, data |-> <<>>]

\* Previous results without the filter on the recorded status.
getPreviousResultsAnyStatus(ctx, currentAgent) ==
  [p \in {q \in DOMAIN ctx.phase_results :
            ctx.phase_results[q].agent # currentAgent} |->
     [agent |-> ctx.phase_results[p].agent,
      completed_at |-> ctx.phase_results[p].completed_at,
      summary |-> ctx.phase_results[p].results_summary]]

\* Previous results without the filter on the recorded agent.
getPreviousResultsOfAllAgents(ctx, currentAgent) ==
  [p \in {q \in DOMAIN ctx.phase_results :
            ctx.phase_results[q].status = "success"} |->
     [agent |-> ctx.phase_results[p].agent,
      completed_at |-> ctx.phase_results[p].completed_at,
      summary |-> ctx.phase_results[p].results_summary]]

\* getPreviousResults: the phases another agent recorded with status 'success'.
getPreviousResults(ctx, currentAgent) ==
  [p \in {q \in DOMAIN ctx.phase_results :
            /\ ctx.phase_results[q].agent # currentAgent
            /\ ctx.phase_results[q].status = "success"} |->
     [agent |-> ctx.phase_results[p].agent,
      completed_at |-> ctx.phase_results[p].completed_at,
      summary |-> ctx.phase_results[p].results_summary]]

\* getContextForAgent: the view, or the empty sequence for null.
getContextForAgent(ctxs, contextId, agentId) ==
  IF getWorkflowContext(ctxs, contextId) = <<>> THEN <<>>
  ELSE LET ctx == ctxs[contextId]
           n == Len(ctx.error_log)
       IN <<[context_id |-> contextId,
             workflow_id |-> ctx.workflow_id,
             current_phase |-> ctx.current_phase,
             iteration |-> ctx.iteration,
             previous_results |-> getPreviousResults(ctx, agentId),
             workflow_state |-> ctx.workflow_state,
             recent_errors |-> SubSeq(ctx.error_log, IF n > 3 THEN n - 2 ELSE 1, n)]>>

\* The context after every write of a fold that runs to its end.
FoldResponse(ctx, response, t) ==
  LET c1 == StorePhaseResult(ctx, response, t)
      c2 == [c1 EXCEPT !.workflow_state = updateWorkflowState(@, response)]
      c3 == [c2 EXCEPT !.performance_metrics = updatePerformanceMetrics(@, response)]
  IN IF ~Truthy(response.status.success)
       THEN [c3 EXCEPT !.error_log = addErrorToContext(@, response)]
       ELSE c3

\* The context as the fold leaves it when updatePerformanceMetrics throws.
FoldUntilMetrics(ctx, response, t) ==
  LET c1 == StorePhaseResult(ctx, response, t)
      c2 == [c1 EXCEPT !.workflow_state = updateWorkflowState(@, response)]
  IN [c2 EXCEPT !.performance_metrics = updatePerformanceMetricsPartial(@, response)]

\* A lookup miss that registers a fresh context under the unknown id.
ContextNotFoundUpsert(ctxs, contextId) ==
  [contexts |-> Put(ctxs, contextId, createWorkflowContext(contextId, "", 0)),
   result |-> Failure("Context not found")]

\* if (!context) return {success: false, error: `Context not found: ...`}
ContextNotFound(ctxs, contextId) ==
  [contexts |-> ctxs, result |-> Failure("Context not found")]

\* An update that folds the response into every context of the map.
updateEveryContext(ctxs, contextId, response, t) ==
  IF getWorkflowContext(ctxs, contextId) = <<>>
    THEN ContextNotFound(ctxs, contextId)
  ELSE IF PhaseResultThrows(response) \/ MetricsThrows(response)
            \/ NextPhaseThrows(response)
    THEN [contexts |-> ctxs, result |-> Failure("Failed to update context")]
  ELSE
    LET ctx == FoldResponse(ctxs[contextId], response, t)
        nextPhase == determineNextPhase(response)
    IN [contexts |-> [c \in DOMAIN ctxs |-> FoldResponse(ctxs[c], response, t)],
        result |-> [success |-> TRUE, error |-> "",
                    data |-> <<[context_id |-> contextId,
                                current_phase |-> ctx.current_phase,
                                next_phase |-> nextPhase,
                                workflow_complete |-> nextPhase = "complete",
                                summary |-> getContextSummary(ctx, t)]>>]]

\* updateContextWithAgentResponse: the context map after the call, and its result.
\* The function is synchronous: no other handler runs between its statements.
updateContextWithAgentResponse(ctxs, contextId, response, t) ==
  IF getWorkflowContext(ctxs, contextId) = <<>>
    THEN ContextNotFound(ctxs, contextId)
  ELSE IF PhaseResultThrows(response)
    THEN [contexts |-> ctxs, result |-> Failure("Failed to update context")]
  ELSE IF MetricsThrows(response)
    THEN [contexts |-> [ctxs EXCEPT ![contextId] = FoldUntilMetrics(@, response, t)],
          result |-> Failure("Failed to update context")]
  ELSE IF NextPhaseThrows(response)
    THEN [contexts |-> [ctxs EXCEPT ![contextId] = FoldResponse(@, response, t)],
          result |-> Failure("Failed to update context")]
  ELSE
    LET ctx == FoldResponse(ctxs[contextId], response, t)
        nextPhase == determineNextPhase(response)
    IN [contexts |-> [ctxs EXCEPT ![contextId] = ctx],
        result |-> [success |-> TRUE, error |-> "",
                    data |-> <<[context_id |-> contextId,
                                current_phase |-> ctx.current_phase,
                                next_phase |-> nextPhase,
                                workflow_complete |-> nextPhase = "complete",
                                summary |-> getContextSummary(ctx, t)]>>]]

\* Expiry measured from the last update instead of the creation.
ExpiredByLastUpdate(ctxs, t) ==
  {c \in DOMAIN ctxs : t - GetTime(ctxs[c].updated_at) > maxContextAge}

\* Expiry that includes the context whose age is exactly the maximum.
ExpiredAtMaxAge(ctxs, t) ==
  {c \in DOMAIN ctxs : t - GetTime(ctxs[c].started_at) >= maxContextAge}

\* The ids of the contexts cleanupOldContexts deletes at time t.
ExpiredContexts(ctxs, t) ==
  {c \in DOMAIN ctxs : t - GetTime(ctxs[c].started_at) > maxContextAge}

cleanupOldContexts(ctxs, t) ==
  [c \in DOMAIN ctxs \ ExpiredContexts(ctxs, t) |-> ctxs[c]]

(***************************************************************************)
(* JSON values of templates and runtime parameters.  text holds the         *)
(* characters of a string or the digits of a number; items holds the        *)
(* elements of an array or the [key, value] entries of an object.           *)
(***************************************************************************)
JStr(s) == [kind |-> "string", text |-> Chars(s), items |-> <<>>]
JText(cs) == [kind |-> "string", text |-> cs, items |-> <<>>]
JNum(s) == [kind |-> "number", text |-> Chars(s), items |-> <<>>]
JArr(items) == [kind |-> "array", text |-> <<>>, items |-> items]
JObj(entries) == [kind |-> "object", text |-> <<>>, items |-> entries]
JFun(s) == [kind |-> "function", text |-> Chars(s), items |-> <<>>]
JUndefined == [kind |-> "undefined", text |-> <<>>, items |-> <<>>]

\* JavaScript truthiness of a JSON value
JTruthy(v) ==
  /\ v.kind \notin {"undefined", "null"}
  /\ ~(v.kind = "number" /\ v.text = <<"0">>)
  /\ ~(v.kind = "string" /\ v.text = <<>>)

\* params.name for a parameter object given as a function from its keys
Param(params, name) == IF name \in DOMAIN params THEN params[name] ELSE JUndefined

\* The members every object literal inherits from Object.prototype that the
\* input sets name.
ObjectPrototype ==
  [constructor |-> JFun("function Object() { [native code] }"),
   toString |-> JFun("function toString() { [native code] }")]

\* The replacements literal of populateParameters: five fixed keys, then the
\* spread of the runtime parameters over them.
Replacements(runtimeParams) ==
  LET fixed ==
        [ k \in {"workflow.context.database_ids.ideas",
                 "workflow.context.database_ids.projects",
                 "workflow.context.database_ids.knowledge",
                 "workflow.context.database_ids.journal",
                 "workflow.parameters.idea_limit"} |->
            CASE k = "workflow.context.database_ids.ideas" ->
                   Param(runtimeParams, "source_database_id")
              [] k = "workflow.context.database_ids.projects" ->
                   Param(runtimeParams, "projects_database_id")
              [] k = "workflow.context.database_ids.knowledge" ->
                   Param(runtimeParams, "knowledge_database_id")
              [] k = "workflow.context.database_ids.journal" ->
                   Param(runtimeParams, "journal_database_id")
              [] OTHER ->
                   IF JTruthy(Param(runtimeParams, "limit"))
                     THEN Param(runtimeParams, "limit") ELSE JNum("5") ]
  IN [k \in DOMAIN fixed \cup DOMAIN runtimeParams |->
        IF k \in DOMAIN runtimeParams THEN runtimeParams[k] ELSE fixed[k]]

\* replacements[variable]: an own property, else one inherited from
\* Object.prototype, else undefined.
PropertyOf(replacements, variable) ==
  LET own == {k \in DOMAIN replacements : Chars(k) = variable}
      inherited == {k \in DOMAIN ObjectPrototype : Chars(k) = variable}
  IN IF own # {} THEN replacements[CHOOSE k \in own : TRUE]
     ELSE IF inherited # {} THEN ObjectPrototype[CHOOSE k \in inherited : TRUE]
     ELSE JUndefined

RECURSIVE Trim(_)
\* String.prototype.trim
Trim(cs) ==
  IF cs = <<>> THEN cs
  ELSE IF Head(cs) = " " THEN Trim(Tail(cs))
  ELSE IF cs[Len(cs)] = " " THEN Trim(SubSeq(cs, 1, Len(cs) - 1))
  ELSE cs

\* Where a match of /\{\{([^}]+)\}\}/ that starts at position i ends, 0 when
\* there is none: two opening braces, one or more characters other than a
\* closing brace, two closing braces.
MatchEnd(cs, i) ==
  IF i + 4 > Len(cs) \/ cs[i] # "{" \/ cs[i + 1] # "{" THEN 0
  ELSE LET closers == {j \in (i + 2)..Len(cs) : cs[j] = "}"}
       IN IF closers = {} THEN 0
          ELSE LET j == CHOOSE x \in closers : \A y \in closers : x <= y
               IN IF j > i + 2 /\ j + 1 <= Len(cs) /\ cs[j + 1] = "}"
                    THEN j + 1 ELSE 0

\* The callback of replace: the text that stands in for the match cs[i..e].
Replacement(cs, i, e, replacements) ==
  LET value == PropertyOf(replacements, Trim(SubSeq(cs, i + 2, e - 2)))
  IN IF value.kind # "undefined" THEN value.text ELSE SubSeq(cs, i, e)

RECURSIVE ReplaceFrom(_, _, _)
\* obj.replace(/\{\{([^}]+)\}\}/g, callback), from position i on: matches are
\* taken leftmost first and the scan resumes after each of them.
ReplaceFrom(cs, i, replacements) ==
  IF i > Len(cs) THEN <<>>
  ELSE LET e == MatchEnd(cs, i)
       IN IF e = 0 THEN <<cs[i]>> \o ReplaceFrom(cs, i + 1, replacements)
          ELSE Replacement(cs, i, e, replacements)
                 \o ReplaceFrom(cs, e + 1, replacements)

RECURSIVE replaceTemplateVariables(_, _)
replaceTemplateVariables(obj, replacements) ==
  IF obj.kind = "string"
    THEN JText(ReplaceFrom(obj.text, 1, replacements))
  ELSE IF obj.kind = "array"
    THEN JArr([i \in 1..Len(obj.items) |->
                 replaceTemplateVariables(obj.items[i], replacements)])
  ELSE IF obj.kind = "object"
    THEN JObj([i \in 1..Len(obj.items) |->
                 [key |-> obj.items[i].key,
                  value |-> replaceTemplateVariables(obj.items[i].value,
                                                     replacements)]])
  ELSE obj

\* populateParameters(templateParams, runtimeParams) for runtime parameters
\* that are an object.
populateParameters(templateParams, runtimeParams) ==
  IF ~JTruthy(templateParams) THEN JObj(<<>>)
  ELSE replaceTemplateVariables(templateParams, Replacements(runtimeParams))

\* One piece of a template string: literal text, or a placeholder with its key
\* (padded with a blank on either side when pad is set).
Literal(s) == [ph |-> FALSE, s |-> s, pad |-> FALSE]
Placeholder(key, pad) == [ph |-> TRUE, s |-> key, pad |-> pad]

Segments ==
  { Literal("id="), Literal("}"),
    Placeholder("a.b", FALSE), Placeholder("a.b", TRUE),
    Placeholder("c.d", FALSE),
    Placeholder("workflow.parameters.idea_limit", FALSE),
    Placeholder("workflow.context.database_ids.ideas", FALSE),
    Placeholder("constructor", FALSE) }

SegmentLists == UNION {[1..n -> Segments] : n \in 0..MaxSegs}

\* The characters of a piece as a template author writes it.
Render(seg) ==
  IF seg.ph
    THEN <<"{", "{">> \o (IF seg.pad THEN <<" ">> ELSE <<>>) \o Chars(seg.s)
           \o (IF seg.pad THEN <<" ">> ELSE <<>>) \o <<"}", "}">>
    ELSE Chars(seg.s)

RECURSIVE RenderAll(_)
RenderAll(segs) ==
  IF segs = <<>> THEN <<>> ELSE Render(Head(segs)) \o RenderAll(Tail(segs))

\* A phase's parameter template holding the string cs in an object member and
\* in an array, next to a number.
ParameterTemplate(cs) ==
  JObj(<<[key |-> "label", value |-> JText(cs)],
         [key |-> "filter", value |-> JArr(<<JNum("1"), JText(cs)>>)]>>)

ParamsFull ==
  ("source_database_id" :> JStr("DB1")) @@ ("limit" :> JNum("1"))
    @@ ("a.b" :> JStr("X"))
ParamsZeroLimit == "limit" :> JNum("0")
ParamsOperations == "operations" :> JArr(<<JStr("update")>>)

\* Runtime parameters of a request.
ParameterSets == {EmptyMap, "a.b" :> JStr("X"), ParamsZeroLimit, ParamsFull}

(***************************************************************************)
(* Template Store.  The registry file names the template file of each       *)
(* workflow type; a template is its list of phases, each with the agent     *)
(* that runs it and that agent's instructions (task_type, parameters).      *)
(* The file of content_processing is registered but cannot be read.         *)
(***************************************************************************)
Registry == {"idea_categorization", "database_updates", "content_processing"}

Templates ==
  [idea_categorization |->
     <<[phase_id |-> "categorization", agent |-> "notion",
        task_type |-> "multi_idea_categorization",
        parameters |->
          JObj(<<[key |-> "source_database_id",
                  value |-> JText(Render(Placeholder(
                              "workflow.context.database_ids.ideas", FALSE)))],
                 [key |-> "limit",
                  value |-> JText(Render(Placeholder(
                              "workflow.parameters.idea_limit", FALSE)))],
                 [key |-> "categorization_rules",
                  value |-> JObj(<<[key |-> "projects",
                                    value |-> JText(Render(Placeholder(
                                      "workflow.context.database_ids.projects",
                                      FALSE)))]>>)]>>)],
       [phase_id |-> "execution_planning", agent |-> "planner",
        task_type |-> "content_processing", parameters |-> JUndefined],
       [phase_id |-> "execution", agent |-> "notion",
        task_type |-> "database_page_updates", parameters |-> JUndefined]>>,
   database_updates |->
     <<[phase_id |-> "execution", agent |-> "notion",
        task_type |-> "database_page_updates",
        parameters |->
          JObj(<<[key |-> "target_database_id",
                  value |-> JText(Render(Placeholder(
                              "workflow.context.database_ids.projects",
                              FALSE)))]>>)]>>]

\* A selection that looks at the owning agent whatever phase_override says.
FindPhaseOfAgentOnly(phases, targetAgent, phaseOverride) ==
  LET hits == {i \in 1..Len(phases) : phases[i].agent = targetAgent}
  IN IF hits = {} THEN 0 ELSE CHOOSE i \in hits : \A j \in hits : i <= j

\* phase_override ? template.phases.find(p => p.phase_id === phase_override)
\*                : template.phases.find(p => p.agent === target_agent)
\* The index of the phase found, 0 for none; a missing or empty phase_override
\* is falsy.
FindPhase(phases, targetAgent, phaseOverride) ==
  LET hits == IF phaseOverride \notin {Absent, ""}
                THEN {i \in 1..Len(phases) : phases[i].phase_id = phaseOverride}
                ELSE {i \in 1..Len(phases) : phases[i].agent = targetAgent}
  IN IF hits = {} THEN 0 ELSE CHOOSE i \in hits : \A j \in hits : i <= j

\* createAgentInstructions as execute-workflow calls it, without phase_override:
\* the instruction, or the empty sequence when it throws.
createAgentInstructions(workflowType, targetAgent, contextId) ==
  IF workflowType \notin DOMAIN Templates THEN <<>>
  ELSE LET phases == Templates[workflowType]
           i == FindPhase(phases, targetAgent, Absent)
       IN IF i = 0 THEN <<>>
          ELSE <<[agent_id |-> targetAgent, workflow_id |-> workflowType,
                  phase |-> phases[i].phase_id, shared_context_id |-> contextId]>>

\* obj[key] of a JSON value: undefined unless obj is an object holding key.
JMember(obj, key) ==
  LET hits == {i \in 1..Len(obj.items) :
                 obj.kind = "object" /\ obj.items[i].key = key}
  IN IF hits = {} THEN JUndefined ELSE obj.items[CHOOSE i \in hits : TRUE].value

\* extractInstructions(template, phase, parameters), parameters being <<>> when
\* the request has none and <<p>> otherwise: the empty sequence when it throws
\* a TypeError (a property read on undefined), else the core instruction with
\* the populated parameters and the methodology sections the task type selects.
extractInstructions(phase, parameters) ==
  LET task == phase.task_type
      categorization == Includes(task, "categorization")
      database == Includes(task, "database") \/ Includes(task, "update")
      throws ==
        \/ /\ parameters = <<>>
           /\ JTruthy(phase.parameters) \/ categorization \/ database
        \/ categorization /\ ~JTruthy(phase.parameters)
  IN IF throws THEN <<>>
     ELSE LET runtime == IF parameters = <<>> THEN EmptyMap ELSE parameters[1]
              rules == JMember(phase.parameters, "categorization_rules")
          IN <<[core_instruction |->
                  [task_type |-> task,
                   parameters |-> populateParameters(phase.parameters, runtime)],
                methodology_sections |->
                  [categorization |->
                     IF categorization
                       THEN <<populateParameters(
                                IF JTruthy(rules) THEN rules ELSE JObj(<<>>),
                                runtime)>>
                       ELSE <<>>,
                   database_execution |->
                     IF database
                       THEN <<IF JTruthy(Param(runtime, "operations"))
                                THEN Param(runtime, "operations") ELSE JArr(<<>>)>>
                       ELSE <<>>,
                   content_processing |-> Includes(task, "content")]]>>

\* What a template operation hands to its caller.  raised: it threw instead of
\* returning; template and instruction hold at most one element.
Outcome(raised, success, error, http) ==
  [raised |-> raised, success |-> success, error |-> error, http |-> http,
   available_templates |-> {}, cache_hit |-> FALSE, template |-> <<>>,
   instruction |-> <<>>]

NoOutcome == Outcome(FALSE, FALSE, "", 0)

\* The types the cache holds, as getCacheStats lists them.
CachedTemplateTypes == DOMAIN templateCache

\* getAvailableTemplateTypes(): the keys of the registry.
getAvailableTemplateTypes == Registry

\* getWorkflowTemplate after loadTemplate returned `loaded` (<<>> for null),
\* answered by its handler with res.json(result).
getWorkflowTemplate(workflowType, loaded, cache) ==
  IF loaded = <<>>
    THEN [Outcome(FALSE, FALSE, "Workflow template not found", 200)
            EXCEPT !.available_templates = getAvailableTemplateTypes]
    ELSE [Outcome(FALSE, TRUE, "", 200)
            EXCEPT !.template = loaded,
                   !.cache_hit = workflowType \in DOMAIN cache]

\* createAgentInstructions after loadTemplate returned `loaded`; its handler
\* answers 200 when it returns and 500 when it throws.
InstructionFrom(loaded, targetAgent, parameters, phaseOverride) ==
  IF loaded = <<>> THEN Outcome(TRUE, FALSE, "Template not found", 500)
  ELSE LET i == FindPhase(loaded[1], targetAgent, phaseOverride)
       IN IF i = 0 THEN Outcome(TRUE, FALSE, "No phase found for agent", 500)
          ELSE LET x == extractInstructions(loaded[1][i], parameters)
               IN IF x = <<>> THEN Outcome(TRUE, FALSE, "TypeError", 500)
                  ELSE [Outcome(FALSE, TRUE, "", 200)
                          EXCEPT !.instruction =
                            <<[agent_id |-> targetAgent,
                               phase |-> loaded[1][i].phase_id,
                               instruction |-> x[1].core_instruction,
                               methodology_sections |->
                                 x[1].methodology_sections]>>]

\* populateParameters substituting in the template object itself.
PopulateInPlace(phases, targetAgent, parameters) ==
  LET i == FindPhase(phases, targetAgent, Absent)
  IN IF i = 0 \/ parameters = <<>> \/ ~JTruthy(phases[i].parameters) THEN phases
     ELSE [phases EXCEPT ![i].parameters = populateParameters(@, parameters[1])]

\* The template object after createAgentInstructions worked on it:
\* populateParameters substitutes in a copy (JSON.parse(JSON.stringify(..))),
\* so the object the cache holds stays as it was loaded.
TemplateAfterPopulate(phases, targetAgent, parameters) == phases

\* this.templateCache.set(workflowType, template); by names the load that
\* stored the object.
CacheSet(cache, workflowType, phases, by) ==
  Put(cache, workflowType, [template |-> phases, by |-> by])

(***************************************************************************)
(* Agent Gateway.                                                          *)
(***************************************************************************)
defaultRetries == 2

RegisteredAgents == {"notion", "planner", "validation"}

initializeAgentEndpoints ==
  [a \in RegisteredAgents |-> [agent_id |-> a, retry_attempts |-> defaultRetries]]

\* Transport failures of one POST: an error code, or the status of a non-2xx reply.
HttpErrors ==
  { [code |-> "ECONNREFUSED", status |-> 0],
    [code |-> "ETIMEDOUT", status |-> 0],
    [code |-> "ENOTFOUND", status |-> 0],
    [code |-> "ERR_BAD_REQUEST", status |-> 404],
    [code |-> "ERR_BAD_RESPONSE", status |-> 503],
    [code |-> "ECONNRESET", status |-> 0] }

NoError == [code |-> "", status |-> 0]

categorizeError(error) ==
  IF error.code = "ECONNREFUSED" THEN "connection_refused"
  ELSE IF error.code = "ETIMEDOUT" THEN "timeout"
  ELSE IF error.status >= 400 /\ error.status < 500 THEN "client_error"
  ELSE IF error.status >= 500 THEN "server_error"
  ELSE IF error.code = "ENOTFOUND" THEN "dns_error"
  ELSE "unknown_error"

RECURSIVE Pow2(_)
Pow2(n) == IF n = 0 THEN 1 ELSE 2 * Pow2(n - 1)

\* A backoff that keeps doubling past ten seconds.
BackoffUncapped(attempt) == 1000 * Pow2(attempt - 1)

\* Math.min(1000 * Math.pow(2, attempt - 1), 10000)
BackoffDelay(attempt) ==
  IF 1000 * Pow2(attempt - 1) <= 10000 THEN 1000 * Pow2(attempt - 1) ELSE 10000

\* A retry test that is one attempt short.
RetriesLeftOneShort(endpoint, attempt) == attempt < endpoint.retry_attempts

\* Whether the catch block of sendWithRetry sleeps and tries again.
RetriesLeft(endpoint, attempt) == attempt <= endpoint.retry_attempts

IdleCall ==
  [pc |-> "idle", owner |-> "", agent |-> "", endpoint |-> <<>>, attempt |-> 0,
   posts |-> 0, inflight |-> 0, waits |-> <<>>, lastError |-> NoError]

\* A call that issues all its attempts at once.
StartCallFanOut(endpoints, owner, agentId) ==
  [pc |-> "posting", owner |-> owner, agent |-> agentId,
   endpoint |-> <<endpoints[agentId]>>, attempt |-> 1,
   posts |-> endpoints[agentId].retry_attempts + 1,
   inflight |-> endpoints[agentId].retry_attempts + 1,
   waits |-> <<>>, lastError |-> NoError]

\* sendInstructionsToAgent up to its first await: the endpoint lookup and POST 1.
StartCall(endpoints, owner, agentId) ==
  [pc |-> "posting", owner |-> owner, agent |-> agentId,
   endpoint |-> <<endpoints[agentId]>>, attempt |-> 1, posts |-> 1, inflight |-> 1,
   waits |-> <<>>, lastError |-> NoError]

\* A not-configured failure that names only the default agent.
UnconfiguredDefaultOnly(endpoints, agentId) ==
  [success |-> FALSE, error |-> "Agent endpoint not configured", data |-> <<>>,
   metadata |-> [available_agents |-> {"notion"}, error_type |-> "",
                 retry_attempts |-> 0]]

Unconfigured(endpoints, agentId) ==
  [success |-> FALSE, error |-> "Agent endpoint not configured", data |-> <<>>,
   metadata |-> [available_agents |-> DOMAIN endpoints, error_type |-> "",
                 retry_attempts |-> 0]]

\* sendInstructionsToAgent after sendWithRetry has returned a response.
ResultOfResponse(endpoints, body) ==
  IF validateAgentResponse(body).success
    THEN [success |-> TRUE, error |-> "", data |-> <<body>>,
          metadata |-> [available_agents |-> {}, error_type |-> "",
                        retry_attempts |-> 0]]
    ELSE [success |-> FALSE, error |-> "Invalid agent response", data |-> <<>>,
          metadata |-> [available_agents |-> {}, error_type |-> "",
                        retry_attempts |-> 0]]

\* sendInstructionsToAgent after sendWithRetry has thrown its last error.
ResultOfError(endpoints, agentId, error) ==
  [success |-> FALSE, error |-> "Agent communication failed", data |-> <<>>,
   metadata |-> [available_agents |-> {}, error_type |-> categorizeError(error),
                 retry_attempts |-> IF agentId \in DOMAIN endpoints
                                      THEN endpoints[agentId].retry_attempts ELSE 0]]

(***************************************************************************)
(* The server: state after construction, and one action per handler step.  *)
(***************************************************************************)
TickMs == 12 * 60 * 60 * 1000    \* the clock advances in steps of 12 hours

UnknownIds == {0}                \* a context id the server never generated

WorkflowTypes == {"idea_categorization", "unknown_type"}

\* overlapped: the phase keys that ingestion requests wrote into this request's
\* context while the request was awaiting its agent.
IdleExec ==
  [pc |-> "idle", contextId |-> 0, workflow_type |-> "", target_agent |-> "",
   phase |-> "", overlapped |-> {}]

NoResult == [success |-> FALSE, error |-> "", data |-> <<>>]

\* What the last step did: the operation, its input and result, the context map
\* and the request before it, and (folded) for each context the phase field of
\* the last response an update call wrote into it; view is what the
\* getContextForAgent call of the step returned, and recs lists the successful
\* updates so far, each with its response's phase, the next phase returned and
\* whether the response reported a failure.
Record(op, contextId, response, result, http, pre, call) ==
  [op |-> op, contextId |-> contextId, response |-> response, result |-> result,
   http |-> http, pre |-> pre, call |-> call, request |-> exec,
   folded |-> last.folded, cache |-> templateCache, view |-> <<>>,
   recs |-> last.recs]

\* The record of an update call: folded follows a call that changed its context.
RecordFold(op, contextId, response, upd, pre, call) ==
  [Record(op, contextId, response, upd.result, 200, pre, call)
     EXCEPT !.folded = IF upd.contexts # pre
                         THEN Put(@, contextId, response.phase) ELSE @,
            !.recs = IF upd.result.success
                       THEN Append(@, [contextId |-> contextId,
                                       phase |-> response.phase,
                                       named |-> response.status.next_phase,
                                       next |-> upd.result.data[1].next_phase,
                                       failed |-> ~Truthy(response.status.success)])
                       ELSE @]

NoSubst == [segs |-> <<>>, params |-> EmptyMap, out |-> JUndefined, done |-> TRUE]

\* One populateParameters call runs on the arguments drawn at the start.
Populate ==
  /\ ~subst.done
  /\ subst' = [subst EXCEPT
                 !.out = populateParameters(ParameterTemplate(RenderAll(subst.segs)),
                                            subst.params),
                 !.done = TRUE]
  /\ UNCHANGED <<contexts, allocated, evicted, now, nextSweep, ticks, folds, exec,
                 agentEndpoints, gw, calls, templateCache, loads, last>>

InitServer ==
  /\ contexts = EmptyMap
  /\ allocated = {}
  /\ evicted = {}
  /\ now = 0
  /\ nextSweep = SweepIntervalMs
  /\ ticks = 0
  /\ folds = 0
  /\ exec = IdleExec
  /\ agentEndpoints = initializeAgentEndpoints
  /\ gw = IdleCall
  /\ calls = 0
  /\ templateCache = EmptyMap
  /\ loads = <<>>
  /\ last = [op |-> "init", contextId |-> 0, response |-> EmptyBody,
             result |-> NoResult, http |-> 0, pre |-> EmptyMap, call |-> IdleCall,
             request |-> IdleExec, folded |-> EmptyMap, cache |-> EmptyMap,
             view |-> <<>>, recs |-> <<>>]

Init == InitServer /\ subst = NoSubst

\* The server after one execute-workflow request for an unknown workflow type
\* has been answered: the context the request created stays in the map.
InitRun ==
  /\ contexts = 1 :> createWorkflowContext(1, "unknown_type", 0)
  /\ allocated = {1}
  /\ evicted = {}
  /\ now = 0
  /\ nextSweep = SweepIntervalMs
  /\ ticks = 0
  /\ folds = 0
  /\ exec = IdleExec
  /\ agentEndpoints = initializeAgentEndpoints
  /\ gw = IdleCall
  /\ calls = 0
  /\ templateCache = EmptyMap
  /\ loads = <<>>
  /\ subst = NoSubst
  /\ last = [op |-> "init", contextId |-> 0, response |-> EmptyBody,
             result |-> NoResult, http |-> 0, pre |-> EmptyMap, call |-> IdleCall,
             request |-> IdleExec, folded |-> EmptyMap, cache |-> EmptyMap,
             view |-> <<>>, recs |-> <<>>]

InitSubst ==
  /\ InitServer
  /\ subst \in [segs : SegmentLists, params : ParameterSets, out : {JUndefined},
                 done : {FALSE}]

\* The body of a template request; a missing field is Absent, missing
\* parameters the empty sequence.  phase_override is absent unless set.
TplRequest(op, workflowType, targetAgent, parameters) ==
  [op |-> op, workflow_type |-> workflowType, target_agent |-> targetAgent,
   parameters |-> parameters, phase_override |-> Absent]

TplRequests ==
  { TplRequest("get", "idea_categorization", Absent, <<>>),
    TplRequest("get", "content_processing", Absent, <<>>),
    TplRequest("get", "unknown_type", Absent, <<>>),
    TplRequest("get", Absent, Absent, <<>>),
    TplRequest("create", "idea_categorization", "notion", <<ParamsFull>>),
    TplRequest("create", "idea_categorization", "notion", <<ParamsZeroLimit>>),
    TplRequest("create", "idea_categorization", "notion", <<>>),
    TplRequest("create", "idea_categorization", "planner", <<>>),
    TplRequest("create", "idea_categorization", "ghost", <<ParamsFull>>),
    TplRequest("create", "idea_categorization", Absent, <<ParamsFull>>),
    TplRequest("create", "unknown_type", "notion", <<ParamsFull>>),
    TplRequest("create", "database_updates", "notion", <<ParamsOperations>>) }

\* create-agent-instructions requests with and without phase_override: the
\* override names a later phase of the target agent, a phase of another agent,
\* no phase of the template, or is the empty string.
PhaseRequests ==
  { [TplRequest("create", "idea_categorization", a, <<ParamsFull>>)
       EXCEPT !.phase_override = o] :
      a \in {"notion", "ghost"},
      o \in {Absent, "", "execution", "execution_planning", "review"} }

\* What the operation of a request hands back once loadTemplate returned.
Answer(req, loaded, cache) ==
  IF req.op = "get" THEN getWorkflowTemplate(req.workflow_type, loaded, cache)
  ELSE InstructionFrom(loaded, req.target_agent, req.parameters, req.phase_override)

\* The cache once the operation has worked on the template object it shares
\* with the cache.
CacheAfter(req, cache) ==
  IF req.op = "create" /\ req.workflow_type \in DOMAIN cache
    THEN [cache EXCEPT ![req.workflow_type].template =
            TemplateAfterPopulate(@, req.target_agent, req.parameters)]
    ELSE cache

\* POST /api/mcp/get-workflow-template or /api/mcp/create-agent-instructions,
\* to the first await that leaves the event loop: a request that lacks a
\* required field is answered 400; on a cache hit loadTemplate returns the
\* cached object and the operation ends; otherwise the registry read is issued.
TplStart(req) ==
  /\ Len(loads) < MaxLoads
  /\ LET slot == [req |-> req, pc |-> "done", called |-> TRUE,
                  cached |-> req.workflow_type \in DOMAIN templateCache,
                  reads |-> 0, cleared |-> FALSE, out |-> NoOutcome]
     IN IF \/ req.workflow_type = Absent
           \/ req.op = "create" /\ req.target_agent = Absent
          THEN /\ loads' = Append(loads,
                   [slot EXCEPT !.called = FALSE,
                                !.out = Outcome(FALSE, FALSE, "field required", 400)])
               /\ UNCHANGED templateCache
        ELSE IF slot.cached
          THEN /\ loads' = Append(loads,
                   [slot EXCEPT !.out =
                      Answer(req, <<templateCache[req.workflow_type].template>>,
                             templateCache)])
               /\ templateCache' = CacheAfter(req, templateCache)
        ELSE /\ loads' = Append(loads, [slot EXCEPT !.pc = "registry"])
             /\ UNCHANGED templateCache
  /\ last' = Record("template", Len(loads) + 1, EmptyBody, NoResult, 0, contexts,
                    IdleCall)
  /\ UNCHANGED <<contexts, allocated, evicted, now, nextSweep, ticks, folds, exec,
                 agentEndpoints, gw, calls, subst>>

\* loadTemplateRegistry resolves for load i: a type the registry lacks makes
\* loadTemplate return null, otherwise the read of the template file is issued.
TplRegistryRead(i) ==
  /\ i \in DOMAIN loads
  /\ loads[i].pc = "registry"
  /\ loads' =
       [loads EXCEPT ![i] =
          IF loads[i].req.workflow_type \in Registry
            THEN [@ EXCEPT !.pc = "file", !.reads = @ + 1]
            ELSE [@ EXCEPT !.pc = "done", !.reads = @ + 1,
                           !.out = Answer(loads[i].req, <<>>, templateCache)]]
  /\ last' = Record("template", i, EmptyBody, NoResult, 0, contexts, IdleCall)
  /\ UNCHANGED <<contexts, allocated, evicted, now, nextSweep, ticks, folds, exec,
                 agentEndpoints, gw, calls, templateCache, subst>>

\* fs.promises.readFile of the template file settles for load i: the parsed
\* template is put into the cache and returned; a failed read is caught and
\* loadTemplate returns null.
TplFileRead(i) ==
  /\ i \in DOMAIN loads
  /\ loads[i].pc = "file"
  /\ LET req == loads[i].req
         read == req.workflow_type \in DOMAIN Templates
         set == IF read
                  THEN CacheSet(templateCache, req.workflow_type,
                                Templates[req.workflow_type], i)
                  ELSE templateCache
         loaded == IF read THEN <<Templates[req.workflow_type]>> ELSE <<>>
     IN /\ loads' = [loads EXCEPT ![i] =
                       [@ EXCEPT !.pc = "done", !.reads = @ + 1,
                                 !.out = Answer(req, loaded, set)]]
        /\ templateCache' = CacheAfter(req, set)
  /\ last' = Record("template", i, EmptyBody, NoResult, 0, contexts, IdleCall)
  /\ UNCHANGED <<contexts, allocated, evicted, now, nextSweep, ticks, folds, exec,
                 agentEndpoints, gw, calls, subst>>

\* POST /api/admin/clear-cache: clearCache().  cleared marks the loads that
\* were in flight when the cache was cleared.
ClearCache ==
  /\ templateCache' = EmptyMap
  /\ loads' = [i \in DOMAIN loads |->
                 IF loads[i].pc # "done" THEN [loads[i] EXCEPT !.cleared = TRUE]
                 ELSE loads[i]]
  /\ last' = Record("clear_cache", 0, EmptyBody, NoResult, 200, contexts, IdleCall)
  /\ UNCHANGED <<contexts, allocated, evicted, now, nextSweep, ticks, folds, exec,
                 agentEndpoints, gw, calls, subst>>

\* Time passes.
Tick ==
  /\ ticks < MaxTicks
  /\ ticks' = ticks + 1
  /\ now' = now + TickMs
  /\ last' = Record("tick", 0, EmptyBody, NoResult, 0, contexts, IdleCall)
  /\ UNCHANGED <<contexts, allocated, evicted, nextSweep, folds, exec, agentEndpoints,
                 gw, calls, templateCache, loads, subst>>

\* The cleanup interval timer fires.
Sweep ==
  /\ now >= nextSweep
  /\ contexts' = cleanupOldContexts(contexts, now)
  /\ evicted' = evicted \cup ExpiredContexts(contexts, now)
  /\ nextSweep' = now + SweepIntervalMs
  /\ last' = Record("sweep", 0, EmptyBody, NoResult, 0, contexts, IdleCall)
  /\ UNCHANGED <<allocated, now, ticks, folds, exec, agentEndpoints, gw, calls,
                 templateCache, loads, subst>>

\* POST /api/mcp/execute-workflow, to its first await: createWorkflowContext.
ExecStart(workflowType, targetAgent, limit) ==
  /\ exec.pc = "idle"
  /\ Cardinality(allocated) < limit
  /\ LET contextId == Cardinality(allocated) + 1
     IN /\ allocated' = allocated \cup {contextId}
        /\ contexts' = Put(contexts, contextId,
                           createWorkflowContext(contextId, workflowType, now))
        /\ exec' = [pc |-> "compiling", contextId |-> contextId,
                    workflow_type |-> workflowType, target_agent |-> targetAgent,
                    phase |-> "", overlapped |-> {}]
        /\ last' = Record("exec_start", contextId, EmptyBody, NoResult, 0, contexts,
                          IdleCall)
  /\ UNCHANGED <<evicted, now, nextSweep, ticks, folds, agentEndpoints, gw, calls,
                 templateCache, loads, subst>>

\* execute-workflow resumes with the compiled instruction (or its exception) and
\* calls sendInstructionsToAgent, which runs to its first POST.
ExecCompile ==
  /\ exec.pc = "compiling"
  /\ gw.pc = "idle"
  /\ templateCache' =
       IF exec.workflow_type \in DOMAIN Templates
            /\ exec.workflow_type \notin DOMAIN templateCache
         THEN CacheSet(templateCache, exec.workflow_type,
                       Templates[exec.workflow_type], 0)
         ELSE templateCache
  /\ LET instruction ==
           createAgentInstructions(exec.workflow_type, exec.target_agent, exec.contextId)
     IN IF instruction = <<>>
          THEN /\ exec' = IdleExec
               /\ gw' = gw
               /\ last' = Record("exec_done", exec.contextId, EmptyBody,
                                 Failure("createAgentInstructions threw"), 500,
                                 contexts, IdleCall)
        ELSE IF exec.target_agent \notin DOMAIN agentEndpoints
          THEN /\ exec' = IdleExec
               /\ gw' = gw
               /\ last' = Record("exec_done", exec.contextId, EmptyBody,
                                 Unconfigured(agentEndpoints, exec.target_agent), 500,
                                 contexts, IdleCall)
        ELSE /\ exec' = [exec EXCEPT !.pc = "waiting", !.phase = instruction[1].phase]
             /\ gw' = StartCall(agentEndpoints, "exec", exec.target_agent)
             /\ last' = Record("exec_send", exec.contextId, EmptyBody, NoResult, 0,
                               contexts, gw')
  /\ UNCHANGED <<contexts, allocated, evicted, now, nextSweep, ticks, folds,
                 agentEndpoints, calls, loads, subst>>

\* sendInstructionsToAgent has returned `result`; its caller resumes.  `call` is
\* the call as it ended: answered by the agent, or given up after the last error.
\* execute-workflow folds a successful result into its context and answers.
Complete(body, result, call) ==
  /\ gw' = IdleCall
  /\ IF gw.owner = "exec"
       THEN /\ exec' = IdleExec
            /\ IF result.success
                 THEN LET upd == updateContextWithAgentResponse(
                                   contexts, exec.contextId, result.data[1], now)
                      IN /\ contexts' = upd.contexts
                         /\ last' = RecordFold("exec_done", exec.contextId,
                                               result.data[1], upd, contexts, call)
                 ELSE /\ contexts' = contexts
                      /\ last' = Record("exec_done", exec.contextId, body, result,
                                        500, contexts, call)
       ELSE /\ exec' = exec
            /\ contexts' = contexts
            /\ last' = Record("send_done", 0, body, result,
                              IF result.success THEN 200 ELSE 500, contexts, call)

\* A retry loop that issues one more POST after the agent has answered.
GwPostOkRepeating(body) ==
  /\ gw.pc = "posting"
  /\ Complete(body, ResultOfResponse(agentEndpoints, body),
              [gw EXCEPT !.inflight = 0, !.pc = "answered", !.attempt = @ + 1,
                         !.posts = @ + 1])
  /\ UNCHANGED <<allocated, evicted, now, nextSweep, ticks, folds, agentEndpoints,
                 calls, templateCache, loads, subst>>

\* The agent answers the POST in flight with a 2xx status and `body`.
GwPostOk(body) ==
  /\ gw.pc = "posting"
  /\ Complete(body, ResultOfResponse(agentEndpoints, body),
              [gw EXCEPT !.inflight = 0, !.pc = "answered"])
  /\ UNCHANGED <<allocated, evicted, now, nextSweep, ticks, folds, agentEndpoints,
                 calls, templateCache, loads, subst>>

\* A give-up that reports the error of the first attempt.
GwPostFailFirstError(error) ==
  /\ gw.pc = "posting"
  /\ IF RetriesLeft(gw.endpoint[1], gw.attempt)
       THEN /\ gw' = [gw EXCEPT !.pc = "sleeping", !.inflight = 0,
                                !.lastError = IF @ = NoError THEN error ELSE @,
                                !.waits = Append(@, BackoffDelay(gw.attempt))]
            /\ last' = Record("post_failed", 0, EmptyBody, NoResult, 0, contexts, gw')
            /\ UNCHANGED <<contexts, exec>>
       ELSE Complete(EmptyBody,
                     ResultOfError(agentEndpoints, gw.agent,
                                   IF gw.lastError = NoError THEN error
                                   ELSE gw.lastError),
                     [gw EXCEPT !.inflight = 0, !.lastError = error, !.pc = "gave_up"])
  /\ UNCHANGED <<allocated, evicted, now, nextSweep, ticks, folds, agentEndpoints,
                 calls, templateCache, loads, subst>>

\* The POST in flight fails: sleep and retry, or give up after the last attempt.
GwPostFail(error) ==
  /\ gw.pc = "posting"
  /\ IF RetriesLeft(gw.endpoint[1], gw.attempt)
       THEN /\ gw' = [gw EXCEPT !.pc = "sleeping", !.inflight = 0, !.lastError = error,
                                !.waits = Append(@, BackoffDelay(gw.attempt))]
            /\ last' = Record("post_failed", 0, EmptyBody, NoResult, 0, contexts, gw')
            /\ UNCHANGED <<contexts, exec>>
       ELSE Complete(EmptyBody, ResultOfError(agentEndpoints, gw.agent, error),
                     [gw EXCEPT !.inflight = 0, !.lastError = error, !.pc = "gave_up"])
  /\ UNCHANGED <<allocated, evicted, now, nextSweep, ticks, folds, agentEndpoints,
                 calls, templateCache, loads, subst>>

\* The backoff sleep ends: the next attempt's POST is issued.
GwWake ==
  /\ gw.pc = "sleeping"
  /\ gw' = [gw EXCEPT !.pc = "posting", !.attempt = @ + 1, !.posts = @ + 1,
                      !.inflight = 1]
  /\ last' = Record("post", 0, EmptyBody, NoResult, 0, contexts, gw')
  /\ UNCHANGED <<contexts, allocated, evicted, now, nextSweep, ticks, folds, exec,
                 agentEndpoints, calls, templateCache, loads, subst>>

\* POST /api/agents/response?context_id=...: query is <<>> without the parameter;
\* limit bounds the number of these requests.
Ingest(query, body, limit) ==
  /\ folds < limit
  /\ folds' = folds + 1
  /\ IF query = <<>>
       THEN /\ contexts' = contexts
            /\ exec' = exec
            /\ last' = Record("ingest", 0, body,
                              Failure("context_id query parameter is required"), 400,
                              contexts, IdleCall)
       ELSE LET upd == updateContextWithAgentResponse(contexts, query[1], body, now)
            IN /\ contexts' = upd.contexts
               /\ exec' = IF exec.pc # "idle" /\ query[1] = exec.contextId
                               /\ upd.contexts # contexts
                             THEN [exec EXCEPT !.overlapped = @ \cup {Key(body.phase)}]
                             ELSE exec
               /\ last' = RecordFold("ingest", query[1], body, upd, contexts, IdleCall)
  /\ UNCHANGED <<allocated, evicted, now, nextSweep, ticks, agentEndpoints, gw,
                 calls, templateCache, loads, subst>>

\* GET /api/context/:contextId/agent/:agentId: 404 when the context is unknown.
GetContextForAgent(contextId, agentId) ==
  /\ last' = [Record("context_for_agent", contextId, EmptyBody, NoResult,
                     IF getContextForAgent(contexts, contextId, agentId) = <<>>
                       THEN 404 ELSE 200,
                     contexts, [IdleCall EXCEPT !.agent = agentId])
                EXCEPT !.view = getContextForAgent(contexts, contextId, agentId)]
  /\ UNCHANGED <<contexts, allocated, evicted, now, nextSweep, ticks, folds, exec,
                 agentEndpoints, gw, calls, templateCache, loads, subst>>

\* POST /api/agents/:agentId/execute, to the first await of sendInstructionsToAgent.
DirectStart(agentId) ==
  /\ gw.pc = "idle"
  /\ calls < MaxCalls
  /\ calls' = calls + 1
  /\ IF agentId \notin DOMAIN agentEndpoints
       THEN /\ gw' = gw
            /\ last' = Record("send_done", 0, EmptyBody,
                              Unconfigured(agentEndpoints, agentId), 500, contexts,
                              [IdleCall EXCEPT !.agent = agentId])
       ELSE /\ gw' = StartCall(agentEndpoints, "direct", agentId)
            /\ last' = Record("post", 0, EmptyBody, NoResult, 0, contexts, gw')
  /\ UNCHANGED <<contexts, allocated, evicted, now, nextSweep, ticks, folds, exec,
                 agentEndpoints, templateCache, loads, subst>>

\* updateAgentEndpoint(agentId, {retry_attempts})
updateAgentEndpoint(agentId, retries) ==
  /\ agentEndpoints' =
       IF agentId \in DOMAIN agentEndpoints
         THEN [agentEndpoints EXCEPT ![agentId].retry_attempts = retries]
         ELSE agentEndpoints
  /\ last' = Record("configure", 0, EmptyBody, NoResult, 0, contexts, IdleCall)
  /\ UNCHANGED <<contexts, allocated, evicted, now, nextSweep, ticks, folds, exec, gw,
                 calls, templateCache, loads, subst>>

QueryIds == {<<>>} \cup {<<c>> : c \in allocated \cup UnknownIds}

\* Agent replies and ingested bodies of the orchestration specification: two
\* well-formed responses of different agents and phases, one a failure; bodies
\* the validation rejects (one the fold would accept whole, one it would throw
\* on); bodies the validation accepts and the fold throws on.
FailedBody == MkBody("planner", "execution_planning", "failed")

ExecReplies ==
  { BaseBody, FailedBody,
    [BaseBody EXCEPT !.agent_id = Absent],
    [BaseBody EXCEPT !.status.errors = NoItems] }

IngestBodies ==
  { BaseBody, FailedBody,
    MkBody("notion", "execution_planning", "ok_done"),
    [BaseBody EXCEPT !.agent_id = Absent],
    [BaseBody EXCEPT !.timestamp = "yesterday"],
    [BaseBody EXCEPT !.status.success = "yes"],
    [BaseBody EXCEPT !.status = NoStatus("absent")],
    [BaseBody EXCEPT !.context_updates = [kind |-> "absent", api_calls |-> 0]] }

ExecErrors == {[code |-> "ECONNREFUSED", status |-> 0]}

Next ==
  \/ \E w \in WorkflowTypes, a \in RegisteredAgents : ExecStart(w, a, MaxCtx)
  \/ ExecCompile
  \/ \E b \in ExecReplies : GwPostOk(b)
  \/ \E e \in ExecErrors : GwPostFail(e)
  \/ GwWake
  \/ \E q \in QueryIds, b \in IngestBodies : Ingest(q, b, MaxFolds)

Spec == Init /\ [][Next]_vars

CallerAgents == {"notion", "ghost"}

NextGw ==
  \/ \E a \in CallerAgents : DirectStart(a)
  \/ \E b \in Bodies : GwPostOk(b)
  \/ \E e \in HttpErrors : GwPostFail(e)
  \/ GwWake
  \/ \E a \in CallerAgents, r \in 0..MaxRetries : updateAgentEndpoint(a, r)

SpecGw == Init /\ [][NextGw]_vars

\* The Context Store under the clock: contexts are created, folded into and swept.
NextSweep ==
  \/ Tick
  \/ Sweep
  \/ \E w \in {"unknown_type"}, a \in {"notion"} : ExecStart(w, a, MaxSweepCtx)
  \/ ExecCompile
  \/ \E q \in QueryIds \ {<<>>}, b \in {FailedBody} : Ingest(q, b, MaxFolds)

SpecSweep == Init /\ [][NextSweep]_vars

\* Responses of a workflow run: one per phase of the default progression that
\* names no next phase, and responses that name one, fail (with five error
\* texts), end the workflow or come from a phase the progression does not know.
RunBodies ==
  { MkBody("notion", "categorization", "ok_none"),
    MkBody("planner", "execution_planning", "ok_none"),
    MkBody("notion", "execution", "ok_none"),
    MkBody("planner", "validation", "ok_none"),
    MkBody("planner", "execution_planning", "ok_next"),
    MkBody("notion", "execution", "ok_done"),
    MkBody("notion", "review", "ok_none"),
    [FailedBody EXCEPT
       !.status.errors = Items(<<"database timeout", "validation of database row",
                                 "tool validation failed", "tool not found",
                                 "unexpected reply">>)] }

\* A workflow run on the context of InitRun: the responses of its phases are
\* ingested one after the other, and agents ask for their view of the context.
NextRun ==
  \/ \E q \in QueryIds \ {<<>>}, b \in RunBodies : Ingest(q, b, MaxRunFolds)
  \/ \E c \in allocated, a \in RespAgents : GetContextForAgent(c, a)

SpecRun == InitRun /\ [][NextRun]_vars

\* The template routes and the cache.
NextTpl ==
  \/ \E req \in TplRequests : TplStart(req)
  \/ \E i \in 1..MaxLoads : TplRegistryRead(i)
  \/ \E i \in 1..MaxLoads : TplFileRead(i)
  \/ ClearCache

SpecTpl == Init /\ [][NextTpl]_vars

\* The phase selection of create-agent-instructions on a cold and a warm cache.
NextPhase ==
  \/ \E req \in PhaseRequests : TplStart(req)
  \/ \E i \in 1..MaxLoads : TplRegistryRead(i)
  \/ \E i \in 1..MaxLoads : TplFileRead(i)

SpecPhase == Init /\ [][NextPhase]_vars

\* populateParameters on every template string and parameter set of the bounds.
NextSubst == Populate

SpecSubst == InitSubst /\ [][NextSubst]_vars

(***************************************************************************)
(* Properties.                                                             *)
(***************************************************************************)

\* An update call was made by the last step: both handlers answer 200 after it.
UpdateCalled == last.op \in {"ingest", "exec_done"} /\ last.http = 200

\* The required envelope: the six fields, and status with a boolean success.
EnvelopeShape(b) ==
  /\ b.kind = "object"
  /\ b.agent_id # Absent /\ b.task_id # Absent /\ b.phase # Absent
  /\ b.timestamp # Absent
  /\ b.results.kind # "absent"
  /\ b.status.kind = "object"
  /\ b.status.success \in {"true", "false"}

\* A value of the declared type AgentToDirectorResponse: every declared member
\* is there.
DeclaredShape(b) ==
  /\ EnvelopeShape(b)
  /\ b.results.kind = "object"
  /\ b.status.errors.present
  /\ b.context_updates.kind = "object"

\* Timestamps of the input sets that are not ISO-8601 dates.
NotIso8601 == {"yesterday", "2025-13-45T10:30:00Z"}

\* C1: a response that fails the required envelope shape is never folded: on
\* the execute-workflow path and on the ingestion endpoint it is rejected and
\* the context map is left as it was.
C1_MalformedNeverFolded ==
  (last.op \in {"ingest", "exec_done"} /\ ~EnvelopeShape(last.response)) =>
     /\ contexts = last.pre
     /\ ~last.result.success

\* C2: an update call with a context id that is not in the map returns
\* success=false with a context-not-found error, adds no context and leaves
\* every existing context unchanged.
C2_UnknownContextRejected ==
  (UpdateCalled /\ last.contextId \notin DOMAIN last.pre) =>
     /\ ~last.result.success
     /\ last.result.error = "Context not found"
     /\ DOMAIN contexts = DOMAIN last.pre
     /\ contexts = last.pre

C2_Witness ==
  /\ UpdateCalled
  /\ last.contextId \notin DOMAIN last.pre
  /\ DOMAIN last.pre # {}
  /\ DeclaredShape(last.response)

\* C3: a call to a registered agent whose every POST fails issues exactly
\* retry_attempts + 1 POSTs (3 with the default of 2 retries), never more while
\* it runs, and then returns success=false.
C3_ExactlyRetriesPlusOne ==
  /\ gw.pc # "idle" => gw.posts <= gw.endpoint[1].retry_attempts + 1
  /\ (last.op = "send_done" /\ last.call.pc = "gave_up") =>
        /\ last.call.posts = last.call.endpoint[1].retry_attempts + 1
        /\ last.call.endpoint[1].retry_attempts = defaultRetries =>
             last.call.posts = 3
        /\ ~last.result.success
        /\ last.result.error = "Agent communication failed"

C3_Witness ==
  /\ last.op = "send_done"
  /\ last.call.pc = "gave_up"
  /\ last.call.endpoint[1].retry_attempts = defaultRetries
  /\ last.call.posts = 3

\* The bodies C4 names: empty, a required field missing, status.success not a
\* boolean, or a timestamp that is not ISO-8601.
C4_FailsEnvelope(b) ==
  \/ ~EnvelopeShape(b)
  \/ b.timestamp \in NotIso8601

C5_OverlappingUpdatesBothRecorded ==
  (last.op = "exec_done" /\ last.http = 200) =>
     \A k \in last.request.overlapped :
        /\ k \in DOMAIN contexts[last.contextId].phase_results
        /\ k # Key(last.response.phase) =>
             contexts[last.contextId].phase_results[k]
               = last.pre[last.contextId].phase_results[k]

C5_Witness ==
  /\ last.op = "exec_done"
  /\ last.result.success
  /\ \E k \in last.request.overlapped : k # Key(last.response.phase)
  /\ Cardinality(DOMAIN contexts[last.contextId].phase_results) = 2

\* C5 as the specification words it: of two overlapping updates the later
\* write wins without merge, so the phase result the other one recorded is gone.
C5_LaterWriteWins ==
  (last.op = "exec_done" /\ last.http = 200 /\ last.result.success
     /\ \E k \in last.request.overlapped : k # Key(last.response.phase)) =>
     \E k \in last.request.overlapped :
        k \notin DOMAIN contexts[last.contextId].phase_results

\* C6: a successful update for a response of phase p writes the entry
\* phase_results[p] of its context and no other entry: every other phase keeps
\* its entry, whether p is new or overwrites its own earlier entry.
C6_OnlyOwnPhaseWritten ==
  (UpdateCalled /\ last.result.success) =>
     LET p == Key(last.response.phase)
         before == last.pre[last.contextId].phase_results
         after == contexts[last.contextId].phase_results
     IN /\ DOMAIN after = DOMAIN before \cup {p}
        /\ \A k \in DOMAIN before \ {p} : after[k] = before[k]
        /\ after[p].agent = last.response.agent_id
        /\ \A c \in DOMAIN last.pre \ {last.contextId} :
              contexts[c].phase_results = last.pre[c].phase_results

C6_Witness ==
  /\ UpdateCalled
  /\ last.result.success
  /\ LET p == Key(last.response.phase)
         before == last.pre[last.contextId].phase_results
         after == contexts[last.contextId].phase_results
     IN /\ p \in DOMAIN before
        /\ after[p] # before[p]
        /\ after[p].agent = "notion"

\* C7: after createWorkflowContext for 'idea_categorization' and the compiled
\* instruction for 'notion', folding the agent's response for the compiled
\* phase with success=true and next_phase='execution_planning' reports
\* workflow_complete=false, next_phase='execution_planning' and, as
\* current_phase, the compiled phase the response was for.
C7_EndToEndReportsResponsePhase ==
  (last.op = "exec_done" /\ last.http = 200
     /\ last.request.workflow_type = "idea_categorization"
     /\ last.request.target_agent = "notion"
     /\ DeclaredShape(last.response)
     /\ last.response.phase = last.request.phase
     /\ last.response.status.success = "true"
     /\ last.response.status.next_phase = "execution_planning") =>
     /\ last.result.success
     /\ last.result.data[1].workflow_complete = FALSE
     /\ last.result.data[1].next_phase = "execution_planning"
     /\ last.result.data[1].current_phase = last.request.phase
     /\ contexts[last.contextId].current_phase = last.request.phase

C7_Witness ==
  /\ last.op = "exec_done"
  /\ last.http = 200
  /\ last.request.workflow_type = "idea_categorization"
  /\ last.request.target_agent = "notion"
  /\ last.response.phase = last.request.phase
  /\ last.response.status.next_phase = "execution_planning"
  /\ last.result.success
  /\ last.pre[last.contextId].current_phase = "initialization"

\* C7 as the specification words it: the same fold reports
\* workflow_complete=false and current_phase='execution_planning'.
C7_EndToEndReportsNextPhase ==
  (last.op = "exec_done" /\ last.http = 200
     /\ last.request.workflow_type = "idea_categorization"
     /\ last.request.target_agent = "notion"
     /\ DeclaredShape(last.response)
     /\ last.response.phase = last.request.phase
     /\ last.response.status.success = "true"
     /\ last.response.status.next_phase = "execution_planning") =>
     /\ last.result.success
     /\ last.result.data[1].workflow_complete = FALSE
     /\ last.result.data[1].current_phase = "execution_planning"

\* C8: a context's current_phase is 'initialization' while no response has
\* been folded into it, and otherwise the phase field of the response folded
\* last; a step that is not an update call leaves every current_phase alone.
C8_CurrentPhaseIsLastFoldedPhase ==
  /\ \A c \in DOMAIN contexts :
        contexts[c].current_phase =
          IF c \in DOMAIN last.folded THEN last.folded[c] ELSE "initialization"
  /\ ~UpdateCalled =>
        \A c \in DOMAIN contexts \cap DOMAIN last.pre :
           contexts[c].current_phase = last.pre[c].current_phase

C8_Witness ==
  /\ UpdateCalled
  /\ last.result.success
  /\ last.response.status.next_phase = "execution_planning"
  /\ last.result.data[1].next_phase = "execution_planning"
  /\ contexts[last.contextId].current_phase = "categorization"
  /\ last.pre[last.contextId].current_phase = "execution_planning"

\* C9: right after a cleanup sweep no context older than 24 hours is in the
\* map, and the id of a context the sweep removed is never found again.
C9_SweepEvictsExpired ==
  /\ last.op = "sweep" =>
        \A c \in DOMAIN contexts :
           now - GetTime(contexts[c].started_at) <= 24 * 60 * 60 * 1000
  /\ \A c \in evicted : getWorkflowContext(contexts, c) = <<>>

C9_Witness ==
  /\ last.op = "sweep"
  /\ \E c \in DOMAIN last.pre :
        /\ c \notin DOMAIN contexts
        /\ GetTime(last.pre[c].updated_at) > GetTime(last.pre[c].started_at)
  /\ \E c \in DOMAIN contexts :
        now - GetTime(contexts[c].started_at) = 24 * 60 * 60 * 1000

C13_UnregisteredAgentNoRequest ==
  (last.op = "send_done" /\ last.call.agent \notin DOMAIN agentEndpoints) =>
     /\ ~last.result.success
     /\ last.result.error = "Agent endpoint not configured"
     /\ last.result.metadata.available_agents = {"notion", "planner", "validation"}
     /\ last.call.posts = 0
     /\ last.call.waits = <<>>
     /\ last.call.inflight = 0
     /\ gw.pc = "idle" /\ gw.posts = 0 /\ gw.inflight = 0

C13_Witness ==
  /\ last.op = "send_done"
  /\ last.call.agent = "ghost"
  /\ calls = 2
  /\ \E a \in DOMAIN agentEndpoints : agentEndpoints[a].retry_attempts # defaultRetries

\* The waits C14 lists, by the number of the failed attempt they follow.
C14_ExpectedWaits == <<1000, 2000, 4000, 8000, 10000, 10000, 10000, 10000>>

\* C14: the wait after failed attempt k is min(1000 * 2^(k-1), 10000) ms, that
\* is 1000, 2000, 4000, 8000, then 10000; a call that gives up has waited once
\* per retry and not after its final attempt.
C14_BackoffDelays ==
  /\ \A k \in 1..Len(gw.waits) : gw.waits[k] = C14_ExpectedWaits[k]
  /\ gw.pc = "sleeping" => Len(gw.waits) = gw.attempt
  /\ gw.pc = "posting" => Len(gw.waits) = gw.attempt - 1
  /\ (last.op = "send_done" /\ last.call.pc = "gave_up") =>
        /\ Len(last.call.waits) = last.call.endpoint[1].retry_attempts
        /\ Len(last.call.waits) = last.call.posts - 1
        /\ \A k \in 1..Len(last.call.waits) :
              last.call.waits[k] = C14_ExpectedWaits[k]

C14_Witness ==
  /\ last.op = "send_done"
  /\ last.call.pc = "gave_up"
  /\ last.call.waits = <<1000, 2000, 4000, 8000, 10000>>

\* C15: one call has at most one POST in flight: a POST is in flight exactly
\* while the call awaits it, the k-th POST is issued only when the k-1 before
\* it have failed and their waits have elapsed, and none is in flight during a
\* wait or after the call has ended.
C15_OnePostInFlight ==
  /\ gw.inflight \in {0, 1}
  /\ gw.inflight = 1 <=> gw.pc = "posting"
  /\ gw.pc = "posting" => gw.posts = gw.attempt /\ Len(gw.waits) = gw.posts - 1
  /\ gw.pc = "sleeping" => gw.posts = gw.attempt /\ Len(gw.waits) = gw.posts
  /\ last.op = "send_done" => last.call.inflight = 0

C15_Witness ==
  /\ gw.pc = "posting"
  /\ gw.inflight = 1
  /\ gw.posts = 3
  /\ Len(gw.waits) = 2

\* C20: a successful update of context c changes context c only: every other
\* context of the map is as it was, and the set of context ids is the same.
C20_OnlyTargetContextChanges ==
  (UpdateCalled /\ last.result.success) =>
     /\ DOMAIN contexts = DOMAIN last.pre
     /\ \A c \in DOMAIN last.pre \ {last.contextId} : contexts[c] = last.pre[c]
     /\ contexts[last.contextId] # last.pre[last.contextId]

C20_Witness ==
  /\ UpdateCalled
  /\ last.result.success
  /\ \E c \in DOMAIN last.pre \ {last.contextId} :
        last.pre[c].started_at # last.pre[last.contextId].started_at

\* The runtime dictionary maps key k: k is one of its keys and has a value.
C18_Mapped(dict, k) == k \in DOMAIN dict /\ dict[k].kind # "undefined"

RECURSIVE C18_Expected(_, _)
\* The text C18 asks for: a placeholder with a mapped key becomes the mapped
\* value, every other piece stays as written.
C18_Expected(segs, dict) ==
  IF segs = <<>> THEN <<>>
  ELSE (IF Head(segs).ph /\ C18_Mapped(dict, Head(segs).s)
          THEN dict[Head(segs).s].text ELSE Render(Head(segs)))
         \o C18_Expected(Tail(segs), dict)

\* C18: substitution through objects, arrays and strings replaces every
\* placeholder whose key the runtime dictionary maps by the mapped value, and
\* leaves every placeholder with an unmapped key, and all other text, as it is.
C18_SubstitutionExact ==
  (subst.done /\ subst.out.kind # "undefined") =>
     subst.out
       = ParameterTemplate(C18_Expected(subst.segs, Replacements(subst.params)))

\* C18 holds of every template whose placeholders name no member that object
\* literals inherit (constructor, toString, ...).
C18_ExactForOwnKeys ==
  (\A i \in DOMAIN subst.segs : subst.segs[i].s \notin DOMAIN ObjectPrototype)
     => C18_SubstitutionExact

\* A placeholder with a mapped key has been replaced by its value.
C18_Witness ==
  /\ subst.done
  /\ subst.segs = <<Literal("id="), Placeholder("a.b", TRUE)>>
  /\ subst.params = ParamsFull
  /\ subst.out = ParameterTemplate(Chars("id=") \o Chars("X"))

\* The template requests that have been answered.
Answered == {i \in DOMAIN loads : loads[i].pc = "done"}

\* C11: every public operation hands its caller an envelope and never raises;
\* createAgentInstructions reports a missing template or phase as success=false.
C11_OperationsNeverRaise ==
  \A i \in Answered :
     loads[i].called => ~loads[i].out.raised

\* C12: a request that fails because the workflow type or the phase does not
\* exist, or because a required field is missing, is answered with a 4xx
\* status; POST get-workflow-template for a nonexistent template answers 400.
C12_NotFoundAnswered4xx ==
  \A i \in Answered :
     (~loads[i].out.success
        /\ loads[i].out.error \in {"field required", "Workflow template not found",
                                   "Template not found", "No phase found for agent"})
       => loads[i].out.http \in 400..499

\* C16: a request for a type the cache holds reads neither registry nor file;
\* clearCache empties the cache; no other step removes or replaces an entry.
C16_CacheEntriesStable ==
  /\ \A i \in DOMAIN loads : loads[i].cached => loads[i].reads = 0
  /\ last.op = "clear_cache" => templateCache = EmptyMap
  /\ last.op # "clear_cache" =>
       \A t \in DOMAIN last.cache :
          t \in DOMAIN templateCache /\ templateCache[t] = last.cache[t]

\* What C16 says of requests that start when the type is cached, of
\* clearCache, and of removal: entries leave the cache only by clearCache.
C16_HitsReadNothingOnlyClearRemoves ==
  /\ \A i \in DOMAIN loads :
        loads[i].cached => (loads[i].reads = 0 /\ loads[i].pc = "done")
  /\ last.op = "clear_cache" => templateCache = EmptyMap
  /\ last.op # "clear_cache" => DOMAIN last.cache \subseteq DOMAIN templateCache

\* C17: getWorkflowTemplate for a type the registry lacks fails, lists every
\* registry key as available_templates and leaves the cache as it was.
C17_UnknownTypeListsRegistry ==
  /\ DOMAIN templateCache \subseteq Registry
  /\ \A i \in Answered :
        (loads[i].req.op = "get" /\ loads[i].called
           /\ loads[i].req.workflow_type \notin Registry)
          => /\ ~loads[i].out.success /\ ~loads[i].out.raised
             /\ loads[i].out.available_templates = Registry
             /\ loads[i].out.template = <<>>
             /\ (last.op = "template" /\ last.contextId = i)
                  => templateCache = last.cache

C17_Witness ==
  /\ last.op = "template"
  /\ last.contextId \in Answered
  /\ loads[last.contextId].req = TplRequest("get", "unknown_type", Absent, <<>>)
  /\ loads[last.contextId].out.available_templates
       = {"idea_categorization", "database_updates", "content_processing"}
  /\ "idea_categorization" \in DOMAIN templateCache

\* C19: two createAgentInstructions calls with the same workflow type, target
\* agent and parameters yield the same core instruction and methodology
\* sections whatever the cache held, namely what a cold cache yields.
C19_InstructionsDeterministic ==
  \A i \in Answered :
     (loads[i].req.op = "create" /\ loads[i].called) =>
        /\ \A j \in Answered :
              loads[j].req = loads[i].req =>
                 loads[j].out.instruction = loads[i].out.instruction
        /\ loads[i].out.instruction
             = InstructionFrom(
                 IF loads[i].req.workflow_type \in DOMAIN Templates
                   THEN <<Templates[loads[i].req.workflow_type]>> ELSE <<>>,
                 loads[i].req.target_agent, loads[i].req.parameters,
                 loads[i].req.phase_override).instruction

C19_Witness ==
  \E i, j \in Answered :
     /\ loads[i].req
          = TplRequest("create", "idea_categorization", "notion", <<ParamsFull>>)
     /\ loads[j].req = loads[i].req
     /\ ~loads[i].cached /\ loads[j].cached
     /\ loads[j].out.instruction # <<>>
     /\ loads[j].out.instruction[1].instruction.parameters
          = populateParameters(Templates.idea_categorization[1].parameters,
                               ParamsFull)

\* The last step was a getContextForAgent call that found its context.
ViewReturned == last.op = "context_for_agent" /\ last.view # <<>>

\* C21 as stated: previous_results has an entry for every recorded phase whose
\* agent is not the requesting one.
C21_EveryOtherAgentPhaseListed ==
  ViewReturned =>
     \A p \in DOMAIN contexts[last.contextId].phase_results :
        contexts[last.contextId].phase_results[p].agent # last.call.agent
          => p \in DOMAIN last.view[1].previous_results

\* C21: previous_results has an entry (agent, completed_at, summary) for
\* exactly the recorded phases whose agent is not the requesting one and whose
\* status is 'success'.
C21_SuccessfulOtherAgentPhasesListed ==
  ViewReturned =>
     LET results == contexts[last.contextId].phase_results
         previous == last.view[1].previous_results
     IN /\ DOMAIN previous =
             {p \in DOMAIN results : /\ results[p].agent # last.call.agent
                                     /\ results[p].status = "success"}
        /\ \A p \in DOMAIN previous :
              previous[p] = [agent |-> results[p].agent,
                             completed_at |-> results[p].completed_at,
                             summary |-> results[p].results_summary]

C21_Witness ==
  /\ ViewReturned
  /\ last.call.agent = "notion"
  /\ \E p, q \in DOMAIN contexts[last.contextId].phase_results :
        /\ contexts[last.contextId].phase_results[p].agent = "planner"
        /\ contexts[last.contextId].phase_results[p].status = "failed"
        /\ p \notin DOMAIN last.view[1].previous_results
        /\ contexts[last.contextId].phase_results[q].agent = "planner"
        /\ q \in DOMAIN last.view[1].previous_results

\* C22: previous_results holds no phase result recorded by the requesting
\* agent, and getContextForAgent leaves the context map as it was.
C22_OwnResultsWithheld ==
  last.op = "context_for_agent" =>
     /\ contexts = last.pre
     /\ last.view # <<>> =>
          \A p \in DOMAIN last.view[1].previous_results :
             /\ p \in DOMAIN contexts[last.contextId].phase_results
             /\ contexts[last.contextId].phase_results[p].agent # last.call.agent
             /\ last.view[1].previous_results[p].agent # last.call.agent

C22_Witness ==
  /\ ViewReturned
  /\ last.call.agent = "notion"
  /\ last.view[1].previous_results # EmptyMap
  /\ \E p \in DOMAIN contexts[last.contextId].phase_results :
        /\ contexts[last.contextId].phase_results[p].agent = "notion"
        /\ contexts[last.contextId].phase_results[p].status = "success"
        /\ p \notin DOMAIN last.view[1].previous_results

C25_NamedNextPhaseReturned ==
  (UpdateCalled /\ last.result.success) =>
     LET named == last.response.status.next_phase
         data == last.result.data[1]
     IN /\ named \notin {Absent, ""} =>
             data.next_phase = IF named = "workflow_complete" THEN "complete"
                               ELSE named
        /\ data.workflow_complete <=> (data.next_phase = "complete")

C25_Witness ==
  /\ UpdateCalled
  /\ last.result.success
  /\ last.response.status.next_phase = "workflow_complete"
  /\ last.result.data[1].next_phase = "complete"
  /\ last.result.data[1].workflow_complete

\* C26: when the response names no next phase, next_phase follows the first
\* rule, in the order categorization, planning, execution, validation, whose
\* substring the phase contains, and is 'unknown' when none does.
C26_DefaultProgression ==
  (UpdateCalled /\ last.result.success
     /\ last.response.status.next_phase \in {Absent, ""}) =>
     LET phase == last.response.phase
         next == last.result.data[1].next_phase
     IN /\ phase = "categorization" => next = "execution_planning"
        /\ phase = "execution_planning" => next = "execution"
        /\ phase = "execution" => next = "validation"
        /\ phase = "validation" => next = "complete"
        /\ phase = "review" => next = "unknown"

C26_Witness ==
  /\ UpdateCalled
  /\ last.result.success
  /\ last.response.status.next_phase = ""
  /\ last.response.phase = "execution_planning"
  /\ last.result.data[1].next_phase = "execution"

\* The successful updates before the update of the last step.
EarlierUpdates ==
  IF last.result.success THEN SubSeq(last.recs, 1, Len(last.recs) - 1)
  ELSE last.recs

\* C27: once an update of a context has returned workflow_complete=true, no
\* later update of that context changes its current_phase or phase_results.
C27_CompleteIsTerminal ==
  (UpdateCalled /\ last.contextId \in DOMAIN last.pre
     /\ \E i \in DOMAIN EarlierUpdates :
           /\ EarlierUpdates[i].contextId = last.contextId
           /\ EarlierUpdates[i].next = "complete") =>
     /\ contexts[last.contextId].current_phase
          = last.pre[last.contextId].current_phase
     /\ contexts[last.contextId].phase_results
          = last.pre[last.contextId].phase_results

\* The first n successful updates are a run in which no response names a next
\* phase and each response comes from the phase the update before recommended,
\* the first from 'categorization'.
FollowsRecommendations(n) ==
  /\ n \in DOMAIN last.recs
  /\ last.recs[1].phase = "categorization"
  /\ \A i \in 1..n : last.recs[i].named \in {Absent, ""}
  /\ \A i \in 1..(n - 1) : last.recs[i + 1].phase = last.recs[i].next

\* C28: such a run is recommended execution_planning, execution, validation
\* and complete in that order: complete after exactly four updates, never
\* 'unknown'.
C28_RunCompletesInFourUpdates ==
  \A n \in DOMAIN last.recs :
     FollowsRecommendations(n) =>
        /\ n <= 4
        /\ last.recs[n].next
             = <<"execution_planning", "execution", "validation", "complete">>[n]

C28_Witness ==
  /\ UpdateCalled
  /\ Len(last.recs) = 4
  /\ FollowsRecommendations(4)
  /\ last.result.data[1].workflow_complete
  /\ \A i \in 1..3 : last.recs[i].next # "complete"

C30_ClearNotUndone ==
  \A t \in DOMAIN templateCache :
     templateCache[t].by \in DOMAIN loads => ~loads[templateCache[t].by].cleared

\* C31: an execute-workflow request that is answered with a failure (the
\* compilation threw, or the dispatch gave up after its last attempt) leaves
\* no context behind: the context it created is not in the map afterwards.
C31_FailedRunLeavesNoContext ==
  (last.op = "exec_done" /\ last.http = 500) =>
     last.contextId \notin DOMAIN contexts

C33_NoDuplicateAgentsOrDatabases ==
  /\ \A c \in DOMAIN contexts :
        LET state == contexts[c].workflow_state
        IN /\ \A i, j \in DOMAIN state.current_agents :
                 state.current_agents[i] = state.current_agents[j] => i = j
           /\ \A i, j \in DOMAIN state.databases_involved :
                 state.databases_involved[i] = state.databases_involved[j] => i = j
  /\ \A c \in DOMAIN last.pre \cap DOMAIN contexts :
        LET before == last.pre[c].workflow_state
            after == contexts[c].workflow_state
        IN /\ Len(after.current_agents) >= Len(before.current_agents)
           /\ SubSeq(after.current_agents, 1, Len(before.current_agents))
                = before.current_agents
           /\ Len(after.databases_involved) >= Len(before.databases_involved)
           /\ SubSeq(after.databases_involved, 1, Len(before.databases_involved))
                = before.databases_involved
  /\ (UpdateCalled /\ last.result.success) =>
        LET after == contexts[last.contextId].workflow_state
            ideas == last.response.results.ideas_processed.items
        IN /\ InSeq(last.response.agent_id, after.current_agents)
           /\ \A i \in DOMAIN ideas :
                 InSeq(ideas[i].target_database_id, after.databases_involved)

C33_Witness ==
  /\ UpdateCalled
  /\ last.result.success
  /\ last.contextId \in DOMAIN last.pre
  /\ last.response.agent_id = "notion"
  /\ last.pre[last.contextId].workflow_state.current_agents = <<"planner", "notion">>
  /\ last.pre[last.contextId].workflow_state.databases_involved = <<"DB_P", "DB_K">>
  /\ contexts[last.contextId].workflow_state.current_agents = <<"planner", "notion">>
  /\ contexts[last.contextId].workflow_state.databases_involved = <<"DB_P", "DB_K">>

C35_PhaseSelection ==
  \A i \in Answered :
     LET req == loads[i].req
     IN (req.op = "create" /\ loads[i].called
           /\ req.workflow_type \in DOMAIN Templates) =>
          LET phases == Templates[req.workflow_type]
              matching ==
                IF req.phase_override \notin {Absent, ""}
                  THEN {k \in DOMAIN phases : phases[k].phase_id = req.phase_override}
                  ELSE {k \in DOMAIN phases : phases[k].agent = req.target_agent}
              out == loads[i].out
          IN IF matching = {}
               THEN /\ out.raised /\ ~out.success
                    /\ out.error = "No phase found for agent"
                    /\ out.instruction = <<>>
               ELSE /\ out.error # "No phase found for agent"
                    /\ out.success =>
                         \E k \in matching :
                            /\ \A j \in matching : k <= j
                            /\ out.instruction[1].phase = phases[k].phase_id

C35_Witness ==
  \E i, j \in Answered :
     /\ loads[i].req.phase_override = "execution"
     /\ loads[i].req.target_agent = "notion"
     /\ loads[i].out.success
     /\ loads[i].out.instruction[1].phase = "execution"
     /\ loads[j].req.phase_override = Absent
     /\ loads[j].req.target_agent = "notion"
     /\ loads[j].out.success
     /\ loads[j].out.instruction[1].phase = "categorization"

\* C36: the cache_hit flag of a successful getWorkflowTemplate is true exactly
\* when loadTemplate returned the cached template, and false when the call
\* read the template from disk.
C36_CacheHitFlagExact ==
  \A i \in Answered :
     (loads[i].req.op = "get" /\ loads[i].out.success) =>
        /\ loads[i].out.cache_hit <=> loads[i].cached
        /\ loads[i].reads > 0 => ~loads[i].out.cache_hit

\* C37: a call whose every attempt failed returns success=false with
\* metadata.error_type one of connection_refused, timeout, dns_error,
\* client_error (a 4xx reply), server_error (a 5xx reply) and unknown_error,
\* the one that belongs to the error of the last attempt.
C37_CategorizedFailure ==
  (last.op \in {"send_done", "exec_done"} /\ last.call.pc = "gave_up") =>
     LET e == last.call.lastError
         type == last.result.metadata.error_type
     IN /\ ~last.result.success
        /\ last.call.posts = last.call.endpoint[1].retry_attempts + 1
        /\ type \in {"connection_refused", "timeout", "dns_error", "client_error",
                     "server_error", "unknown_error"}
        /\ e.code = "ECONNREFUSED" => type = "connection_refused"
        /\ e.code = "ETIMEDOUT" => type = "timeout"
        /\ e.code = "ENOTFOUND" => type = "dns_error"
        /\ e.status \in 400..499 => type = "client_error"
        /\ e.status \in 500..599 => type = "server_error"
        /\ e.code = "ECONNRESET" => type = "unknown_error"

C37_Witness ==
  /\ last.op = "send_done"
  /\ last.call.pc = "gave_up"
  /\ last.call.posts = 3
  /\ Len(last.call.waits) = 2
  /\ last.call.lastError.status = 503
  /\ last.result.metadata.error_type = "server_error"
  /\ ~last.result.success

\* C38 as stated: every error entry whose text holds none of 'timeout',
\* 'database' and 'validation' carries the generic review-logs suggestion.
C38_ThreeRulesThenGeneric ==
  \A c \in DOMAIN contexts :
     \A i \in DOMAIN contexts[c].error_log :
        LET entry == contexts[c].error_log[i]
        IN (/\ ~Includes(entry.error_message, "timeout")
            /\ ~Includes(entry.error_message, "database")
            /\ ~Includes(entry.error_message, "validation")) =>
              entry.suggested_action
                = "Review error details and agent logs for specific resolution"

\* C38: the suggested_action of every error entry follows the first rule, in
\* the order timeout, database, validation, tool, whose substring the error
\* text contains, and is the generic review-logs suggestion when none does.
C38_SuggestedActionRules ==
  \A c \in DOMAIN contexts :
     \A i \in DOMAIN contexts[c].error_log :
        LET entry == contexts[c].error_log[i]
        IN entry.suggested_action =
             CASE entry.error_message \in {"request timeout", "database timeout"} ->
                    "Increase timeout or optimize agent processing"
               [] entry.error_message
                    \in {"database locked", "validation of database row"} ->
                    "Check database connectivity and permissions"
               [] entry.error_message = "tool validation failed" ->
                    "Review input parameters and schema validation"
               [] entry.error_message = "tool not found" ->
                    "Verify MCP tool availability and configuration"
               [] entry.error_message = "unexpected reply" ->
                    "Review error details and agent logs for specific resolution"

C38_Witness ==
  \E c \in DOMAIN contexts :
     \E i, j, k \in DOMAIN contexts[c].error_log :
        /\ contexts[c].error_log[i].error_message = "database timeout"
        /\ contexts[c].error_log[i].suggested_action
             = "Increase timeout or optimize agent processing"
        /\ contexts[c].error_log[j].error_message = "tool not found"
        /\ contexts[c].error_log[j].suggested_action
             = "Verify MCP tool availability and configuration"
        /\ contexts[c].error_log[k].error_message = "unexpected reply"
        /\ contexts[c].error_log[k].suggested_action
             = "Review error details and agent logs for specific resolution"

\* C39: a cleanup sweep removes only contexts older than 24 hours: a context
\* aged 24 hours or less is in the map after the sweep with every field as it
\* was, every context that is gone was older, and the sweep adds no context.
C39_SweepKeepsYoungContexts ==
  last.op = "sweep" =>
     /\ DOMAIN contexts \subseteq DOMAIN last.pre
     /\ \A c \in DOMAIN last.pre :
           IF now - GetTime(last.pre[c].started_at) <= 24 * 60 * 60 * 1000
             THEN c \in DOMAIN contexts /\ contexts[c] = last.pre[c]
             ELSE c \notin DOMAIN contexts

C39_Witness ==
  /\ last.op = "sweep"
  /\ \E c \in DOMAIN last.pre : c \notin DOMAIN contexts
  /\ \E c \in DOMAIN contexts :
        /\ now - GetTime(contexts[c].started_at) = 24 * 60 * 60 * 1000
        /\ contexts[c].error_log # <<>>
        /\ contexts[c] = last.pre[c]

====
